---- MODULE Spec2Model ----
(***************************************************************************)
(* A model of cctoml: the TOML parser (src/src/cctoml.cc, parser::parse    *)
(* and the lexical functions it calls), the document value (TomlValue) and  *)
(* the TOML serializer (parser::stringify).                                 *)
(*                                                                          *)
(* Texts are TLA+ strings; data[position] of the C++ code is                *)
(* Ch(data, position), with the code's 0-based positions.  Every lexical    *)
(* function returns a record [st, pos, ...]: st = "ok" (pos is the position *)
(* after the token), "error" (an exception; exc names its class, pos the    *)
(* position it carries), "hang" (the function's loop repeats one state for  *)
(* ever), "ub" (the code reads past the end of the text or of a container)  *)
(* or "unmodelled" (a production this model does not cover).                *)
(***************************************************************************)
EXTENDS Integers, Sequences, FiniteSets, TLC

VARIABLES
    data,      \* the text given to parse
    root,      \* the document parse has built from data
    status,    \* how parse(data) ends: "ok", "error", "hang", "ub", "unmodelled"
    exc,       \* the class of the exception, when status = "error"
    errPos,    \* the position the exception carries
    errMsg,    \* its message, without the position suffix
    sections,  \* what parse read from data and stored: the root's key/values,
               \* then each header with its key/values
    last,      \* the section read by the latest step, stored or refused
    out,       \* stringify(root, TO_TOML), once the program has called it
    back,      \* parse(out.text), once the program has called it
    made,      \* the TomlDate object of the program, once constructed: its value
               \* is that of TomlDate(made.text) until reset() empties it
    shown,     \* toString() of the value the date made has, once the program has called it
    escaped,   \* parseUnicodeString on escaped.text, once the program has called it
    heap,      \* the TomlValue objects the program holds
    store      \* the TomlValue objects of the copy run and the storage they point to

vars == <<data, root, status, exc, errPos, errMsg, sections, last, out, back, made, shown,
          escaped, heap, store>>

\* The variables of the date run and of the escape run.
dateVars == <<made, shown>>

escapeVars == <<escaped>>

objectVars == <<heap>>

storeVars == <<store>>

\* The variables of the parse run.
parseVars == <<data, root, status, exc, errPos, errMsg, sections, last, out, back>>

\* A local variable initialised once: F applied to the value v.
Bind(v, F(_)) == F(v)

(***************************************************************************)
(* Characters                                                               *)
(***************************************************************************)
Digits == {"0", "1", "2", "3", "4", "5", "6", "7", "8", "9"}

Letters ==
    {"a", "b", "c", "d", "e", "f", "g", "h", "i", "j", "k", "l", "m", "n", "o",
     "p", "q", "r", "s", "t", "u", "v", "w", "x", "y", "z",
     "A", "B", "C", "D", "E", "F", "G", "H", "I", "J", "K", "L", "M", "N", "O",
     "P", "Q", "R", "S", "T", "U", "V", "W", "X", "Y", "Z"}

\* The printable ASCII characters in code order: 0x20 .. 0x5F and 0x61 .. 0x7E
\* (0x60 cannot stand in a TLA+ string).
AsciiLow ==
    " !\"#$%&'()*+,-./0123456789:;<=>?@ABCDEFGHIJKLMNOPQRSTUVWXYZ[\\]^_"

AsciiHigh == "abcdefghijklmnopqrstuvwxyz{|}~"

\* The control characters a TLA+ string can hold besides tab, LF and CR.
ControlChars == {"\f"}

Ch(text, position) == SubSeq(text, position + 1, position + 1)

IS_DIGIT(c) == c \in Digits

isalnum(c) == c \in Digits \cup Letters

\* The byte value of a character (std::map<std::string, ...> orders keys by it).
CharCode(c) ==
    CASE c = "\t" -> 9
      [] c = "\n" -> 10
      [] c = "\f" -> 12
      [] c = "\r" -> 13
      [] \E i \in 1..Len(AsciiLow) : Ch(AsciiLow, i - 1) = c ->
            31 + (CHOOSE i \in 1..Len(AsciiLow) : Ch(AsciiLow, i - 1) = c)
      [] OTHER ->
            96 + (CHOOSE i \in 1..Len(AsciiHigh) : Ch(AsciiHigh, i - 1) = c)

DigitVal(c) == CharCode(c) - 48

RECURSIVE StringLess(_, _)
\* std::less<std::string>: lexicographic order over the bytes.
StringLess(a, b) ==
    IF Len(b) = 0 THEN FALSE
    ELSE IF Len(a) = 0 THEN TRUE
    ELSE IF Ch(a, 0) = Ch(b, 0)
         THEN StringLess(SubSeq(a, 2, Len(a)), SubSeq(b, 2, Len(b)))
         ELSE CharCode(Ch(a, 0)) < CharCode(Ch(b, 0))

(***************************************************************************)
(* Results of the lexical functions                                         *)
(***************************************************************************)
ParseError(position, msg) ==
    [st |-> "error", exc |-> "TomlParseException", pos |-> position, msg |-> msg]

ValueError(position, msg) ==
    [st |-> "error", exc |-> "TomlException", pos |-> position, msg |-> msg]

Hang(position) ==
    [st |-> "hang", exc |-> "", pos |-> position, msg |-> "loop makes no progress"]

OutOfBounds(position) ==
    [st |-> "ub", exc |-> "", pos |-> position, msg |-> "read outside the storage"]

Unmodelled(position, what) ==
    [st |-> "unmodelled", exc |-> "", pos |-> position, msg |-> what]

\* A failed result, passed up unchanged (an exception propagates).
Fail(r) == [st |-> r.st, exc |-> r.exc, pos |-> r.pos, msg |-> r.msg]

(***************************************************************************)
(* TomlValue: a tag and the payload of that tag                             *)
(***************************************************************************)
NoEntries == [k \in {} |-> 0]

Boolean(b) == [type |-> "Boolean", b |-> b]

Integer(i) == [type |-> "Integer", i |-> i]

\* An int64_t of magnitude 2^30 or more is named by its decimal text.
Integer64(dec) == [type |-> "Integer", dec |-> dec]

\* A double is named by its 17-digit decimal text (DoubleFormat).
Double(d) == [type |-> "Double", d |-> d]

String(s) == [type |-> "String", s |-> s]

\* TomlValue(const TomlDate&): the payload is a TomlDate.
Date(date) == [type |-> "Date", date |-> date]

Array(a) == [type |-> "Array", a |-> a]

Object(o) == [type |-> "Object", o |-> o]

\* TomlValue(): an empty table.
DefaultValue == Object(NoEntries)

isArray(v) == v.type = "Array"

isObject(v) == v.type = "Object"

HasKey(v, key) == key \in DOMAIN v.o

\* std::map::operator[] then assignment.
MapPut(o, key, value) ==
    [k \in DOMAIN o \cup {key} |-> IF k = key THEN value ELSE o[k]]

\* TomlValue::insert: a non-table becomes a table first.
insert(v, key, value) ==
    IF v.type # "Object" THEN Object(MapPut(NoEntries, key, value))
    ELSE Object(MapPut(v.o, key, value))

\* A push_back that stores the value before the elements the array holds.
push_front(v, value) ==
    IF ~isArray(v) THEN Array(<<value>>) ELSE Array(<<value>> \o v.a)

\* TomlValue::push_back: a non-array becomes an array first.
push_back(v, value) ==
    IF ~isArray(v) THEN Array(<<value>>) ELSE Array(Append(v.a, value))

(***************************************************************************)
(* A TomlValue* into a tree is the path from the tree's root: a sequence of *)
(* steps, each a table key or an array index (1-based).                     *)
(***************************************************************************)
KeyStep(key) == [kind |-> "key", key |-> key]

IndexStep(i) == [kind |-> "idx", idx |-> i]

RECURSIVE Deref(_, _)
Deref(tree, node) ==
    IF node = <<>> THEN tree
    ELSE IF Head(node).kind = "key"
         THEN Deref(tree.o[Head(node).key], Tail(node))
         ELSE Deref(tree.a[Head(node).idx], Tail(node))

RECURSIVE Store(_, _, _)
\* *node = value
Store(tree, node, value) ==
    IF node = <<>> THEN value
    ELSE IF Head(node).kind = "key"
         THEN Object([tree.o EXCEPT ![Head(node).key] = Store(@, Tail(node), value)])
         ELSE Array([tree.a EXCEPT ![Head(node).idx] = Store(@, Tail(node), value)])

\* An operator[] that stores a new TomlValue() at the key whether or not the
\* key is present.
IndexAfresh(tree, node, key) ==
    [tree |-> Store(tree, node, Object(MapPut(Deref(tree, node).o, key, DefaultValue))),
     node |-> Append(node, KeyStep(key))]

\* node = &(*node)[key] for a table *node: the key is created, holding
\* TomlValue(), when it is absent.
IndexObject(tree, node, key) ==
    LET v == Deref(tree, node)
    IN  [tree |-> IF HasKey(v, key) THEN tree
                  ELSE Store(tree, node, Object(MapPut(v.o, key, DefaultValue))),
         node |-> Append(node, KeyStep(key))]

(***************************************************************************)
(* Scanner primitives                                                       *)
(***************************************************************************)
RECURSIVE skipWhitespace(_, _)
skipWhitespace(text, position) ==
    IF position < Len(text) /\ Ch(text, position) \in {" ", "\t"}
    THEN skipWhitespace(text, position + 1)
    ELSE position

RECURSIVE skipCommentBody(_, _)
\* The inner loop of skipWhitespaceAndComment, after the '#'.
skipCommentBody(text, position) ==
    IF position >= Len(text) THEN [st |-> "ok", pos |-> position]
    ELSE LET c == Ch(text, position)
         IN  IF c = "\n" \/ c = "\r" THEN [st |-> "ok", pos |-> position]
             ELSE IF c \in ControlChars
                  THEN ParseError(position,
                           "Control character (except tab) not allowed in comment")
                  ELSE skipCommentBody(text, position + 1)

RECURSIVE skipWhitespaceAndLines(_, _)
\* A skip that passes over line breaks as over spaces and tabs.
skipWhitespaceAndLines(text, position) ==
    IF position < Len(text) /\ Ch(text, position) \in {" ", "\t", "\n", "\r"}
    THEN skipWhitespaceAndLines(text, position + 1)
    ELSE [st |-> "ok", pos |-> position]

skipWhitespaceAndComment(text, position) ==
    LET p == skipWhitespace(text, position)
    IN  IF position < Len(text) /\ p < Len(text) /\ Ch(text, p) = "#"
        THEN skipCommentBody(text, p + 1)
        ELSE [st |-> "ok", pos |-> IF position < Len(text) THEN p ELSE position]

skipCrlf(text, position) ==
    IF position < Len(text) /\ Ch(text, position) = "\r"
       /\ position + 1 < Len(text) /\ Ch(text, position + 1) = "\n"
    THEN position + 2
    ELSE IF position < Len(text) /\ Ch(text, position) = "\n"
         THEN position + 1
         ELSE position

RECURSIVE skipUselessChar(_, _)
skipUselessChar(text, position) ==
    IF position >= Len(text) THEN [st |-> "ok", pos |-> position]
    ELSE LET w == skipWhitespaceAndComment(text, position)
         IN  IF w.st # "ok" THEN w
             ELSE LET p == skipCrlf(text, w.pos)
                  IN  IF p <= position THEN [st |-> "ok", pos |-> p]
                      ELSE skipUselessChar(text, p)

\* The exit test of skipAll's loop body.
skipAllDone(text, position) ==
    position < Len(text) /\ Ch(text, position) \notin {"#", " ", "\t", "\r", "\n"}

RECURSIVE skipAll(_, _)
\* while (position < size) { skip blanks and a comment; skip a line end;
\* return when the next character is none of '#', ' ', '\t', '\r', '\n' }.
\* An iteration that neither returns nor moves the position is followed by
\* the same iteration again: the loop never ends.
skipAll(text, position) ==
    IF position >= Len(text) THEN [st |-> "ok", pos |-> position]
    ELSE LET w == skipWhitespaceAndComment(text, position)
         IN  IF w.st # "ok" THEN w
             ELSE LET p == skipCrlf(text, w.pos)
                  IN  IF skipAllDone(text, p) THEN [st |-> "ok", pos |-> p]
                      ELSE IF p = position THEN Hang(position)
                      ELSE skipAll(text, p)

(***************************************************************************)
(* Keys, strings, booleans                                                  *)
(***************************************************************************)
\* std::string_view::substr(position, count), position <= size.
substr(text, position, count) ==
    SubSeq(text, position + 1,
           IF position + count < Len(text) THEN position + count ELSE Len(text))

RECURSIVE scanBareKey(_, _, _, _)
scanBareKey(text, start, position, isTable) ==
    IF position >= Len(text)
    THEN ParseError(position, "Unexpected content after Toml value")
    ELSE LET c == Ch(text, position)
         IN  IF isalnum(c) \/ c = "_" \/ c = "-"
             THEN scanBareKey(text, start, position + 1, isTable)
             ELSE IF c \in {"=", " ", "\t", "."} \/ (isTable /\ c = "]")
                  THEN IF position - start = 0
                       THEN ParseError(position, "Invalid key")
                       ELSE [st |-> "ok", pos |-> position,
                             str |-> substr(text, start, position - start)]
                  ELSE ParseError(position, "Unexpected content after Toml value")

parseBareKey(text, position, isTable) == scanBareKey(text, position, position, isTable)

HexVal(c) ==
    IF IS_DIGIT(c) THEN DigitVal(c)
    ELSE IF c \in {"a", "A"} THEN 10 ELSE IF c \in {"b", "B"} THEN 11
    ELSE IF c \in {"c", "C"} THEN 12 ELSE IF c \in {"d", "D"} THEN 13
    ELSE IF c \in {"e", "E"} THEN 14 ELSE 15

isxdigit(c) == IS_DIGIT(c) \/ c \in {"a", "b", "c", "d", "e", "f", "A", "B", "C", "D", "E", "F"}

RECURSIVE DigitsValue(_, _, _)
DigitsValue(digits, base, acc) ==
    IF digits = "" THEN acc
    ELSE DigitsValue(SubSeq(digits, 2, Len(digits)), base, acc * base + HexVal(Ch(digits, 0)))

\* The character of a byte value, for the bytes a string of the model can hold.
HasChar(code) == code \in {9, 10, 12, 13} \cup (32..95) \cup (97..126)

CharOf(code) ==
    CASE code = 9 -> "\t"
      [] code = 10 -> "\n"
      [] code = 12 -> "\f"
      [] code = 13 -> "\r"
      [] code >= 32 /\ code <= 95 -> Ch(AsciiLow, code - 32)
      [] OTHER -> Ch(AsciiHigh, code - 97)

\* std::from_chars(hex, codePoint, 16) into an int32_t reads an optional '-'
\* and hexadecimal digits.  It succeeds on the whole of hex when there is a
\* digit, nothing but digits follows, and the value fits 32 bits.
from_chars_hex(hex) ==
    LET neg == hex # "" /\ Ch(hex, 0) = "-"
        digits == IF neg THEN SubSeq(hex, 2, Len(hex)) ELSE hex
    IN  IF digits = "" \/ \E i \in 0..(Len(digits) - 1) : ~isxdigit(Ch(digits, i))
        THEN [ok |-> FALSE]
        ELSE IF Len(digits) >= 8 /\ HexVal(Ch(digits, 0)) >= 8
        THEN [ok |-> FALSE]
        ELSE [ok |-> TRUE,
              codePoint |-> IF neg THEN 0 - DigitsValue(digits, 16, 0)
                            ELSE DigitsValue(digits, 16, 0)]

\* static_cast<char>: the low eight bits.
ToByte(n) == n % 256

\* The bytes parseUnicodeString appends for a code point.
encode(codePoint) ==
    IF codePoint <= 127 THEN <<ToByte(codePoint)>>
    ELSE IF codePoint <= 2047
    THEN <<192 + (codePoint \div 64), 128 + (codePoint % 64)>>
    ELSE IF codePoint <= 65535
    THEN <<224 + (codePoint \div 4096), 128 + ((codePoint \div 64) % 64), 128 + (codePoint % 64)>>
    ELSE <<240 + (codePoint \div 262144), 128 + ((codePoint \div 4096) % 64),
           128 + ((codePoint \div 64) % 64), 128 + (codePoint % 64)>>

\* text[position] is the 'u' or 'U' of an escape.
parseUnicodeString(text, position) ==
    LET hexLength == IF Ch(text, position) = "u" THEN 4 ELSE 8
        start == position + 1
    IN  IF start + hexLength >= Len(text)
        THEN ParseError(start, "Unexpected end in Unicode escape")
        ELSE
        Bind(substr(text, start, hexLength), LAMBDA hex :
        Bind(from_chars_hex(hex), LAMBDA parsed :
        IF ~parsed.ok
        THEN ParseError(start + hexLength, "Invalid hexadecimal string " \o hex)
        ELSE IF parsed.codePoint > 1114111
                \/ (parsed.codePoint >= 55296 /\ parsed.codePoint <= 57343)
        THEN ParseError(start + hexLength,
               "Invalid Unicode code point: " \o substr(text, start - 2, hexLength + 2))
        ELSE [st |-> "ok", pos |-> start + hexLength, bytes |-> encode(parsed.codePoint)]))

\* result += parseUnicodeString(...): the escape's bytes as characters, when a
\* string of the model can hold them.
AppendEscape(text, position, result) ==
    Bind(parseUnicodeString(text, position), LAMBDA u :
    IF u.st # "ok" THEN u
    ELSE IF Len(u.bytes) = 1 /\ HasChar(u.bytes[1])
    THEN [st |-> "ok", pos |-> u.pos, str |-> result \o CharOf(u.bytes[1])]
    ELSE Unmodelled(position, "byte outside the characters of the model"))

RECURSIVE scanBasicString(_, _, _)
\* The loop of parseBasicString; result is the string built so far.
scanBasicString(text, position, result) ==
    IF position >= Len(text) THEN ParseError(position, "Unterminated basic string")
    ELSE LET c == Ch(text, position)
         IN  IF c = "\"" THEN [st |-> "ok", pos |-> position + 1, str |-> result]
             ELSE IF c \in ControlChars \cup {"\n", "\r"}
                  THEN ParseError(position,
                         "Any Unicode character can be used, except for those that must be escaped: "
                         \o "quotation marks, backslashes, and control characters other than tabs ")
             ELSE IF c = "\\"
                  THEN IF position + 1 >= Len(text)
                       THEN ParseError(position + 1, "Invalid escape")
                       ELSE LET esc == Ch(text, position + 1)
                            IN  CASE esc = "t" -> scanBasicString(text, position + 2, result \o "\t")
                                  [] esc = "n" -> scanBasicString(text, position + 2, result \o "\n")
                                  [] esc = "f" -> scanBasicString(text, position + 2, result \o "\f")
                                  [] esc = "r" -> scanBasicString(text, position + 2, result \o "\r")
                                  [] esc = "\"" -> scanBasicString(text, position + 2, result \o "\"")
                                  [] esc = "\\" -> scanBasicString(text, position + 2, result \o "\\")
                                  [] esc = "b" -> Unmodelled(position + 1, "backspace")
                                  [] esc \in {"u", "U"} ->
                                       Bind(AppendEscape(text, position + 1, result), LAMBDA u :
                                       IF u.st # "ok" THEN u
                                       ELSE scanBasicString(text, u.pos, u.str))
                                  [] OTHER -> ParseError(position + 2, "Unknown escape: \\" \o esc)
             ELSE scanBasicString(text, position + 1, result \o c)

parseBasicString(text, position) == scanBasicString(text, position + 1, "")

RECURSIVE scanLiteralString(_, _, _)
scanLiteralString(text, position, result) ==
    IF position >= Len(text) THEN ParseError(position, "Unterminated literal string")
    ELSE LET c == Ch(text, position)
         IN  IF c = "'" THEN [st |-> "ok", pos |-> position + 1, str |-> result]
             ELSE IF c = "\r" \/ c = "\n"
                  THEN ParseError(position, "Line wrapping is not allowed in Basic String")
             ELSE IF c \in ControlChars
                  THEN ParseError(position,
                         "All control characters other than tabs are not allowed in literal strings")
             ELSE scanLiteralString(text, position + 1, result \o c)

parseLiteralString(text, position) == scanLiteralString(text, position + 1, "")

\* text[position] is a quote.
parseQuotedKeys(text, position) ==
    IF Ch(text, position) = "\"" THEN parseBasicString(text, position)
    ELSE parseLiteralString(text, position)

MATCH3(text, position, c) ==
    position + 2 < Len(text) /\ Ch(text, position) = c
    /\ Ch(text, position + 1) = c /\ Ch(text, position + 2) = c

\* IS_CRLF: a line feed, or a carriage return followed by a line feed.
IS_CRLF(text, position) ==
    \/ Ch(text, position) = "\n"
    \/ (Ch(text, position) = "\r" /\ position + 1 < Len(text) /\ Ch(text, position + 1) = "\n")

RECURSIVE lineHasChar(_, _)
\* The scan after a backslash of a multi-line basic string: a character other
\* than space and tab comes before the end of the line.
lineHasChar(text, cp) ==
    IF cp < Len(text) /\ Ch(text, cp) # "\n" /\ Ch(text, cp) # "\r"
    THEN IF Ch(text, cp) \in {" ", "\t"} THEN lineHasChar(text, cp + 1) ELSE TRUE
    ELSE FALSE

RECURSIVE skipLineEnding(_, _)
\* The loop after a line-ending backslash: line breaks, spaces and tabs.
skipLineEnding(text, position) ==
    IF position < Len(text)
       /\ (IS_CRLF(text, position) \/ Ch(text, position) \in {" ", "\t"})
    THEN skipLineEnding(text, position + 1)
    ELSE position

\* The three quotes at position are followed by a fourth one.
FourthQuote(text, position, q) == position + 3 < Len(text) /\ Ch(text, position + 3) = q

\* The character two places after the three quotes at position is a quote too.
SixthQuote(text, position, q) == position + 5 < Len(text) /\ Ch(text, position + 5) = q

RECURSIVE scanMultiBasicString(_, _, _, _)
\* The loop of parseMultiBasicString.
scanMultiBasicString(text, position, result, inEscape) ==
    IF position >= Len(text)
    THEN ParseError(position, "Unterminated multi-line basic string")
    ELSE IF ~inEscape /\ MATCH3(text, position, "\"") /\ ~FourthQuote(text, position, "\"")
    THEN [st |-> "ok", pos |-> position + 3, str |-> result]
    ELSE IF ~inEscape /\ MATCH3(text, position, "\"") /\ SixthQuote(text, position, "\"")
    THEN ParseError(position, "not allow 3 \" in multi-basic string")
    ELSE
    LET c == Ch(text, position)
        next == position + 1
    IN  IF c = "\\" /\ ~inEscape
        THEN IF lineHasChar(text, next)
             THEN scanMultiBasicString(text, next, result, TRUE)
             ELSE IF next < Len(text)
                     /\ (IS_CRLF(text, next) \/ Ch(text, next) \in {" ", "\t"})
             THEN scanMultiBasicString(text, skipLineEnding(text, next), result, FALSE)
             ELSE scanMultiBasicString(text, next, result, TRUE)
        ELSE IF c \in ControlChars
                \/ (c = "\r" /\ next < Len(text) /\ Ch(text, next) # "\n")
        THEN ParseError(next,
               "Any Unicode character can be used, except for those that must be escaped: "
               \o "backslashes and control characters except tabs, line breaks, and carriage returns")
        ELSE IF inEscape
        THEN CASE c = "t" -> scanMultiBasicString(text, next, result \o "\t", FALSE)
               [] c = "n" -> scanMultiBasicString(text, next, result \o "\n", FALSE)
               [] c = "f" -> scanMultiBasicString(text, next, result \o "\f", FALSE)
               [] c = "r" -> scanMultiBasicString(text, next, result \o "\r", FALSE)
               [] c = "\"" -> scanMultiBasicString(text, next, result \o "\"", FALSE)
               [] c = "\\" -> scanMultiBasicString(text, next, result \o "\\", FALSE)
               [] c = "b" -> Unmodelled(position, "backspace")
               [] c \in {"u", "U"} ->
                    Bind(AppendEscape(text, position, result), LAMBDA u :
                    IF u.st # "ok" THEN u
                    ELSE scanMultiBasicString(text, u.pos, u.str, FALSE))
               [] OTHER -> ParseError(next, "Unknown escape in multi-line: \\" \o c)
        ELSE scanMultiBasicString(text, next, result \o c, FALSE)

\* text[position] is the first of three double quotes.
parseMultiBasicString(text, position) ==
    scanMultiBasicString(text, skipCrlf(text, position + 3), "", FALSE)

RECURSIVE scanMultiLiteralString(_, _, _)
\* The loop of parseMultiLiteralString.
scanMultiLiteralString(text, position, result) ==
    IF position >= Len(text)
    THEN ParseError(position, "Unterminated multi-line literal string")
    ELSE IF MATCH3(text, position, "'") /\ ~FourthQuote(text, position, "'")
    THEN [st |-> "ok", pos |-> position + 3, str |-> result]
    ELSE IF MATCH3(text, position, "'") /\ SixthQuote(text, position, "'")
    THEN ParseError(position, "not allow 3 ' in multi-literal string")
    ELSE IF ~MATCH3(text, position, "'")
            /\ \/ Ch(text, position) \in ControlChars
               \/ /\ Ch(text, position) = "\r" /\ position + 1 < Len(text)
                  /\ Ch(text, position + 1) # "\n"
    THEN ParseError(position,
           "All control characters other than tabs are not allowed in multi-literal strings")
    ELSE scanMultiLiteralString(text, position + 1, result \o Ch(text, position))

\* text[position] is the first of three single quotes.
parseMultiLiteralString(text, position) ==
    scanMultiLiteralString(text, skipCrlf(text, position + 3), "")

\* text[position] is a quote.
parseString(text, position) ==
    LET c == Ch(text, position)
        r == IF MATCH3(text, position, c)
             THEN IF c = "\"" THEN parseMultiBasicString(text, position)
                  ELSE parseMultiLiteralString(text, position)
             ELSE IF c = "\"" THEN parseBasicString(text, position)
                  ELSE parseLiteralString(text, position)
    IN  IF r.st # "ok" THEN r
        ELSE [st |-> "ok", pos |-> r.pos, val |-> String(r.str)]

\* text[position] is 't' or 'f'.
parseBoolean(text, position) ==
    IF substr(text, position, 4) = "true"
    THEN [st |-> "ok", pos |-> position + 4, val |-> Boolean(TRUE)]
    ELSE IF substr(text, position, 5) = "false"
         THEN [st |-> "ok", pos |-> position + 5, val |-> Boolean(FALSE)]
         ELSE ParseError(position, "Expected 'true' or 'false'")

(***************************************************************************)
(* Numbers.  A double is identified by its shortest 17-digit decimal text;  *)
(* the two tables record what the C++ library (std::from_chars and the      *)
(* ostream inserters) yields for the texts and values the model uses.       *)
(* fixed1 of the largest double is not used: that value takes the           *)
(* scientific branch of stringifyDouble.                                    *)
(***************************************************************************)
FromCharsDouble ==
       "0.5" :> [ok |-> TRUE, d |-> "0.5"]
    @@ "1.5" :> [ok |-> TRUE, d |-> "1.5"]
    @@ "-1.5" :> [ok |-> TRUE, d |-> "-1.5"]
    @@ "1000.0" :> [ok |-> TRUE, d |-> "1000"]
    @@ "1e3" :> [ok |-> TRUE, d |-> "1000"]
    @@ "1e6" :> [ok |-> TRUE, d |-> "1000000"]
    @@ "1000000.0000000001" :> [ok |-> TRUE, d |-> "1000000.0000000001"]
    @@ "1.7976931348623157e308" :> [ok |-> TRUE, d |-> "1.7976931348623157e+308"]
    @@ "1.797693134862316e308" :> [ok |-> FALSE, d |-> ""]
    @@ "0.1" :> [ok |-> TRUE, d |-> "0.10000000000000001"]
    @@ "0.10000000000000001" :> [ok |-> TRUE, d |-> "0.10000000000000001"]
    @@ "1e-5" :> [ok |-> TRUE, d |-> "1.0000000000000001e-05"]
    @@ "3.0" :> [ok |-> TRUE, d |-> "3"]
    @@ "-0.0" :> [ok |-> TRUE, d |-> "-0"]
    @@ "100.0e+01" :> [ok |-> TRUE, d |-> "1000"]
    @@ "1.55" :> [ok |-> TRUE, d |-> "1.55"]
    @@ "1e10" :> [ok |-> TRUE, d |-> "10000000000"]
    @@ "10.5" :> [ok |-> TRUE, d |-> "10.5"]

DoubleFormat ==
       "-0" :> [whole |-> TRUE, absLt1e14 |-> TRUE, absGe1e6 |-> FALSE, absTiny |-> FALSE,
                 scientific15 |-> "-0.000000000000000e+00", fixed1 |-> "-0.0", general17 |-> "-0"]
    @@ "-1.5" :> [whole |-> FALSE, absLt1e14 |-> TRUE, absGe1e6 |-> FALSE, absTiny |-> FALSE,
                 scientific15 |-> "-1.500000000000000e+00", fixed1 |-> "-1.5", general17 |-> "-1.5"]
    @@ "0.10000000000000001" :> [whole |-> FALSE, absLt1e14 |-> TRUE, absGe1e6 |-> FALSE, absTiny |-> FALSE,
                 scientific15 |-> "1.000000000000000e-01", fixed1 |-> "0.1", general17 |-> "0.10000000000000001"]
    @@ "0.5" :> [whole |-> FALSE, absLt1e14 |-> TRUE, absGe1e6 |-> FALSE, absTiny |-> FALSE,
                 scientific15 |-> "5.000000000000000e-01", fixed1 |-> "0.5", general17 |-> "0.5"]
    @@ "1.0000000000000001e-05" :> [whole |-> FALSE, absLt1e14 |-> TRUE, absGe1e6 |-> FALSE, absTiny |-> TRUE,
                 scientific15 |-> "1.000000000000000e-05", fixed1 |-> "0.0", general17 |-> "1.0000000000000001e-05"]
    @@ "1.5" :> [whole |-> FALSE, absLt1e14 |-> TRUE, absGe1e6 |-> FALSE, absTiny |-> FALSE,
                 scientific15 |-> "1.500000000000000e+00", fixed1 |-> "1.5", general17 |-> "1.5"]
    @@ "1.7976931348623157e+308" :> [whole |-> TRUE, absLt1e14 |-> FALSE, absGe1e6 |-> TRUE, absTiny |-> FALSE,
                 scientific15 |-> "1.797693134862316e+308", fixed1 |-> "", general17 |-> "1.7976931348623157e+308"]
    @@ "1.55" :> [whole |-> FALSE, absLt1e14 |-> TRUE, absGe1e6 |-> FALSE, absTiny |-> FALSE,
                 scientific15 |-> "1.550000000000000e+00", fixed1 |-> "1.6", general17 |-> "1.55"]
    @@ "10.5" :> [whole |-> FALSE, absLt1e14 |-> TRUE, absGe1e6 |-> FALSE, absTiny |-> FALSE,
                 scientific15 |-> "1.050000000000000e+01", fixed1 |-> "10.5", general17 |-> "10.5"]
    @@ "10000000000" :> [whole |-> TRUE, absLt1e14 |-> TRUE, absGe1e6 |-> TRUE, absTiny |-> FALSE,
                 scientific15 |-> "1.000000000000000e+10", fixed1 |-> "10000000000.0", general17 |-> "10000000000"]
    @@ "1000" :> [whole |-> TRUE, absLt1e14 |-> TRUE, absGe1e6 |-> FALSE, absTiny |-> FALSE,
                 scientific15 |-> "1.000000000000000e+03", fixed1 |-> "1000.0", general17 |-> "1000"]
    @@ "1000000" :> [whole |-> TRUE, absLt1e14 |-> TRUE, absGe1e6 |-> TRUE, absTiny |-> FALSE,
                 scientific15 |-> "1.000000000000000e+06", fixed1 |-> "1000000.0", general17 |-> "1000000"]
    @@ "1000000.0000000001" :> [whole |-> FALSE, absLt1e14 |-> TRUE, absGe1e6 |-> TRUE, absTiny |-> FALSE,
                 scientific15 |-> "1.000000000000000e+06", fixed1 |-> "1000000.0", general17 |-> "1000000.0000000001"]
    @@ "3" :> [whole |-> TRUE, absLt1e14 |-> TRUE, absGe1e6 |-> FALSE, absTiny |-> FALSE,
                 scientific15 |-> "3.000000000000000e+00", fixed1 |-> "3.0", general17 |-> "3"]

isValidDigit(base, c) ==
    CASE base = 2 -> c \in {"0", "1"}
      [] base = 8 -> c \in {"0", "1", "2", "3", "4", "5", "6", "7"}
      [] base = 10 -> IS_DIGIT(c)
      [] base = 16 -> isxdigit(c)
      [] OTHER -> FALSE

RECURSIVE scanDigits(_, _, _, _, _)
\* The digit loops of parseNumber: digits of the base, each underscore
\* followed by a digit.  has tells whether a digit was read.
scanDigits(text, scan, base, start, has) ==
    IF scan < Len(text) /\ (isValidDigit(base, Ch(text, scan)) \/ Ch(text, scan) = "_")
    THEN IF Ch(text, scan) # "_"
         THEN scanDigits(text, scan + 1, base, start, TRUE)
         ELSE IF scan + 1 < Len(text) /\ isValidDigit(base, Ch(text, scan + 1))
              THEN scanDigits(text, scan + 1, base, start, has)
              ELSE ParseError(start,
                     "Invalid numeric format: underscore '_' must be followed by a digit")
    ELSE [st |-> "ok", pos |-> scan, has |-> has]

RECURSIVE removeUnderscores(_)
removeUnderscores(raw) ==
    IF raw = "" THEN ""
    ELSE IF Ch(raw, 0) = "_" THEN removeUnderscores(SubSeq(raw, 2, Len(raw)))
    ELSE Ch(raw, 0) \o removeUnderscores(SubSeq(raw, 2, Len(raw)))

\* Longest digit strings whose value fits the model's integers.
MaxIntDigits(base) ==
    CASE base = 2 -> 30 [] base = 8 -> 10 [] base = 16 -> 7 [] OTHER -> 9

RECURSIVE MulAdd(_, _, _, _)
\* The decimal text of dec[1..i] * base + carry.
MulAdd(dec, i, base, carry) ==
    IF i = 0 THEN (IF carry = 0 THEN "" ELSE ToString(carry))
    ELSE MulAdd(dec, i - 1, base, (DigitVal(Ch(dec, i - 1)) * base + carry) \div 10)
         \o ToString((DigitVal(Ch(dec, i - 1)) * base + carry) % 10)

RECURSIVE ToDecimal(_, _, _)
\* The decimal text, without leading zeros, of the value of digits in base,
\* after the value acc; "" is zero.
ToDecimal(digits, base, acc) ==
    IF digits = "" THEN acc
    ELSE ToDecimal(SubSeq(digits, 2, Len(digits)), base,
                   MulAdd(acc, Len(acc), base, HexVal(Ch(digits, 0))))

RECURSIVE DecLess(_, _)
\* a < b for decimal texts of the same length.
DecLess(a, b) ==
    IF a = "" THEN FALSE
    ELSE IF Ch(a, 0) # Ch(b, 0) THEN DigitVal(Ch(a, 0)) < DigitVal(Ch(b, 0))
    ELSE DecLess(SubSeq(a, 2, Len(a)), SubSeq(b, 2, Len(b)))

\* a <= b for decimal texts without leading zeros.
DecLessEq(a, b) == Len(a) < Len(b) \/ (Len(a) = Len(b) /\ ~DecLess(b, a))

\* The largest value of an unsigned 64-bit integer.
UInt64Max == "18446744073709551615"

\* std::numeric_limits<int64_t>::max() and the magnitude of min().
Int64Max == "9223372036854775807"

Int64MinMagnitude == "9223372036854775808"

\* The largest magnitude kept as a number of the model: 2^30 - 1.
SmallMax == "1073741823"

\* std::from_chars into an int64_t for a digit text of any length:
\* result_out_of_range when the value does not fit.
from_chars_int64(neg, digits, base, start, position) ==
    Bind(ToDecimal(digits, base, ""), LAMBDA dec :
    IF ~DecLessEq(dec, IF neg THEN Int64MinMagnitude ELSE Int64Max)
    THEN ParseError(start, "Invalid integer")
    ELSE IF DecLessEq(dec, SmallMax)
    THEN [st |-> "ok", pos |-> position,
          val |-> Integer(IF neg THEN 0 - DigitsValue(dec, 10, 0) ELSE DigitsValue(dec, 10, 0))]
    ELSE [st |-> "ok", pos |-> position,
          val |-> Integer64(IF neg THEN "-" \o dec ELSE dec)])

\* std::from_chars on the cleaned text, as parseNumber calls it.
convertNumber(raw, isFloat, base, start, position) ==
    IF isFloat
    THEN IF raw \notin DOMAIN FromCharsDouble
         THEN Unmodelled(start, "std::from_chars of this float text")
         ELSE IF FromCharsDouble[raw].ok
              THEN [st |-> "ok", pos |-> position, val |-> Double(FromCharsDouble[raw].d)]
              ELSE ParseError(start, "Invalid float")
    ELSE LET neg == raw # "" /\ Ch(raw, 0) = "-"
             digits == IF neg THEN SubSeq(raw, 2, Len(raw)) ELSE raw
         IN  IF digits = "" THEN ParseError(start, "Invalid integer")
             ELSE IF Len(digits) > MaxIntDigits(base)
                  THEN from_chars_int64(neg, digits, base, start, position)
                  ELSE [st |-> "ok", pos |-> position,
                        val |-> Integer(IF neg THEN 0 - DigitsValue(digits, base, 0)
                                        ELSE DigitsValue(digits, base, 0))]

\* parseNumber from the leading-zero test on; position is past sign and base prefix.
parseNumberBody(text, start, position, base, isNegative) ==
    LET size == Len(text)
    IN  IF base = 10 /\ position >= size THEN OutOfBounds(position)
        ELSE IF base = 10 /\ Ch(text, position) = "0" /\ position + 1 < size
                /\ (IS_DIGIT(Ch(text, position + 1)) \/ Ch(text, position + 1) = "_")
        THEN ParseError(position, "Leading zeros are not allowed")
        ELSE
        Bind(scanDigits(text, position, base, start, FALSE), LAMBDA m :
        IF m.st # "ok" THEN m ELSE
        LET dot == base = 10 /\ m.pos < size /\ Ch(text, m.pos) = "."
        IN
        Bind(IF ~dot THEN m
             ELSE IF m.pos + 1 < size /\ Ch(text, m.pos + 1) = "_"
                  THEN ParseError(position,
                         "Invalid numeric format: '.' cannot be immediately followed by underscore '_'")
                  ELSE Bind(scanDigits(text, m.pos + 1, 10, start, FALSE), LAMBDA d :
                            IF d.st = "ok" /\ ~d.has
                            THEN ParseError(d.pos, "Expected digits after '.'")
                            ELSE d), LAMBDA f :
        IF f.st # "ok" THEN f ELSE
        LET exp == base = 10 /\ f.pos < size /\ Ch(text, f.pos) \in {"e", "E"}
            s == IF f.pos + 1 < size /\ Ch(text, f.pos + 1) \in {"+", "-"}
                 THEN f.pos + 2 ELSE f.pos + 1
        IN
        Bind(IF ~exp THEN f
             ELSE IF s < size /\ Ch(text, s) = "_"
                  THEN ParseError(s, "Expected digits after exponent, instead of a _")
                  ELSE Bind(scanDigits(text, s, 10, start, FALSE), LAMBDA d :
                            IF d.st = "ok" /\ ~d.has
                            THEN ParseError(d.pos, "Expected digits after exponent")
                            ELSE d), LAMBDA e :
        IF e.st # "ok" THEN e ELSE
        Bind((IF isNegative THEN "-" ELSE "") \o substr(text, position, e.pos - position),
             LAMBDA raw :
        IF raw = ""
        THEN [st |-> "ub", exc |-> "", pos |-> e.pos, msg |-> "front() of an empty string"]
        ELSE IF Ch(raw, 0) = "_" \/ Ch(raw, Len(raw) - 1) = "_"
             THEN ParseError(start, "Underscore at start or end")
             ELSE convertNumber(removeUnderscores(raw), dot \/ exp, base, start, e.pos)))))

\* text[position] exists.
parseNumber(text, position) ==
    LET size == Len(text)
        start == position
        signed == Ch(text, position) \in {"+", "-"}
        isNegative == Ch(text, position) = "-"
        p1 == IF signed THEN position + 1 ELSE position
    IN  IF signed /\ p1 < size /\ Ch(text, p1) = "."
        THEN ParseError(p1,
               "Invalid numeric format: sign ('+'/'-') cannot be immediately followed by '.'")
        ELSE IF p1 + 2 < size /\ substr(text, p1, 3) = "inf"
        THEN [st |-> "ok", pos |-> p1 + 3, val |-> Double(IF isNegative THEN "-inf" ELSE "inf")]
        ELSE IF p1 + 2 < size /\ substr(text, p1, 3) = "nan"
        THEN [st |-> "ok", pos |-> p1 + 3, val |-> Double("nan")]
        ELSE
        LET prefixed == p1 + 1 < size /\ Ch(text, p1) = "0" /\ Ch(text, p1 + 1) \in {"b", "o", "x"}
            base == IF ~prefixed THEN 10
                    ELSE CASE Ch(text, p1 + 1) = "b" -> 2
                           [] Ch(text, p1 + 1) = "o" -> 8
                           [] OTHER -> 16
            p2 == IF prefixed THEN p1 + 2 ELSE p1
        IN  IF base # 10 /\ signed
            THEN ParseError(start, "Sign ('+'/'-') is only allowed in decimal numbers")
            ELSE parseNumberBody(text, start, p2, base, isNegative)

(***************************************************************************)
(* TomlDate: a variant tag, the bit fields of m_core, and m_subSecond       *)
(***************************************************************************)
\* std::terminate: an exception left a function declared noexcept.
Terminate(msg) ==
    [st |-> "terminate", exc |-> "", pos |-> 0 - 1, msg |-> msg]

Pow2(n) == 2 ^ n

\* m_core = 0: every bit field is zero.
ZeroCore ==
    [year |-> 0, month |-> 0, day |-> 0, hour |-> 0, minute |-> 0, second |-> 0, tz |-> 0]

\* TomlDate::reset.
reset == [m_type |-> "INVALID", m_core |-> ZeroCore, m_subSecond |-> 0]

\* setBits on one date: the value is cut to bitCount bits (two's complement)
\* and written to the field.
setBits(date, field, value, bitCount) ==
    [date EXCEPT !.m_core[field] = value % Pow2(bitCount)]

getBits(date, field) == date.m_core[field]

getSignedBits(date, field, bitCount) ==
    IF getBits(date, field) >= Pow2(bitCount - 1)
    THEN getBits(date, field) - Pow2(bitCount)
    ELSE getBits(date, field)

setYear(date, year) == setBits(date, "year", year, 16)

setMonth(date, month) == setBits(date, "month", month, 4)

setDay(date, day) == setBits(date, "day", day, 5)

setHour(date, hour) == setBits(date, "hour", hour, 5)

setMinute(date, minute) == setBits(date, "minute", minute, 6)

setSecond(date, second) == setBits(date, "second", second, 6)

setTzOffset(date, tzOffset) == setBits(date, "tz", tzOffset, 11)

\* std::optional<int>.
nullopt == [has |-> FALSE]

optional(value) == [has |-> TRUE, value |-> value]

hasDate(date) == date.m_type \in {"LOCAL_DATE", "LOCAL_DATE_TIME", "OFFSET_DATE_TIME"}

hasTime(date) == date.m_type \in {"LOCAL_TIME", "LOCAL_DATE_TIME", "OFFSET_DATE_TIME"}

getYear(date) == IF hasDate(date) THEN optional(getSignedBits(date, "year", 16)) ELSE nullopt

getMonth(date) == IF hasDate(date) THEN optional(getBits(date, "month")) ELSE nullopt

getDay(date) == IF hasDate(date) THEN optional(getBits(date, "day")) ELSE nullopt

getHour(date) == IF hasTime(date) THEN optional(getBits(date, "hour")) ELSE nullopt

getMinute(date) == IF hasTime(date) THEN optional(getBits(date, "minute")) ELSE nullopt

getSecond(date) == IF hasTime(date) THEN optional(getBits(date, "second")) ELSE nullopt

\* m_subSecond & 0x3FFFFFFF; the values stored are below 10^9 < 2^30.
getSubSecond(date) ==
    IF date.m_subSecond # 0 - 1 /\ hasTime(date) THEN optional(date.m_subSecond) ELSE nullopt

getTzOffset(date) ==
    IF date.m_type = "OFFSET_DATE_TIME" THEN optional(getSignedBits(date, "tz", 11))
    ELSE nullopt

\* ParseDigits: count digits at position, or nullopt with the position kept.
ParseDigits(sv, position, count) ==
    IF position + count > Len(sv) THEN [has |-> FALSE, pos |-> position]
    ELSE IF \E i \in 0..(count - 1) : ~IS_DIGIT(Ch(sv, position + i))
         THEN [has |-> FALSE, pos |-> position]
         ELSE [has |-> TRUE, pos |-> position + count,
               value |-> DigitsValue(substr(sv, position, count), 10, 0)]

RECURSIVE skipDigits(_, _)
\* while (position < size && IS_DIGIT(sv[position])) position++
skipDigits(sv, position) ==
    IF position < Len(sv) /\ IS_DIGIT(Ch(sv, position))
    THEN skipDigits(sv, position + 1)
    ELSE position

\* sub.resize(9, '0'): cut to nine characters or filled up with '0'.
resize9(sub) ==
    IF Len(sub) >= 9 THEN SubSeq(sub, 1, 9)
    ELSE sub \o SubSeq("000000000", 1, 9 - Len(sub))

\* parseSubSecond; position is past the '.'.
parseSubSecond(date, sv, position) ==
    Bind(skipDigits(sv, position), LAMBDA end :
    IF end = position
    THEN ValueError(0 - 1, "'.' must be followed by digits in string: " \o sv)
    ELSE [st |-> "ok", pos |-> end,
          date |-> [date EXCEPT !.m_subSecond =
                       DigitsValue(resize9(substr(sv, position, end - position)), 10, 0)]])

\* parseTimezoneOffset; sv[position] exists.
parseTimezoneOffset(date, sv, position) ==
    LET offsetChar == Ch(sv, position)
    IN  IF offsetChar = "Z" \/ offsetChar = "z"
        THEN [st |-> "ok", pos |-> position + 1,
              date |-> [setTzOffset(date, 0) EXCEPT !.m_type = "OFFSET_DATE_TIME"]]
        ELSE IF offsetChar # "+" /\ offsetChar # "-"
        THEN [st |-> "ok", pos |-> position, date |-> date]
        ELSE
        Bind(ParseDigits(sv, position + 1, 2), LAMBDA offsetHour :
        IF ~offsetHour.has \/ offsetHour.value > 23 \/ offsetHour.pos >= Len(sv)
           \/ Ch(sv, offsetHour.pos) # ":"
        THEN ValueError(0 - 1, "Invalid timezone offset hour in string: " \o sv)
        ELSE
        Bind(ParseDigits(sv, offsetHour.pos + 1, 2), LAMBDA offsetMinute :
        IF ~offsetMinute.has \/ offsetMinute.value > 59
        THEN ValueError(0 - 1, "Invalid timezone offset minute in string: " \o sv)
        ELSE LET sign == IF offsetChar = "+" THEN 1 ELSE 0 - 1
             IN  [st |-> "ok", pos |-> offsetMinute.pos,
                  date |-> [setTzOffset(date, sign * (offsetHour.value * 60 + offsetMinute.value))
                              EXCEPT !.m_type = "OFFSET_DATE_TIME"]]))

\* hh:mm:ss at position: nullopt-like has = FALSE when the text does not match.
parseClock(sv, position) ==
    Bind(ParseDigits(sv, position, 2), LAMBDA hour :
    IF ~hour.has \/ hour.value > 23 \/ hour.pos >= Len(sv) \/ Ch(sv, hour.pos) # ":"
    THEN [has |-> FALSE]
    ELSE
    Bind(ParseDigits(sv, hour.pos + 1, 2), LAMBDA minute :
    IF ~minute.has \/ minute.value > 59 \/ minute.pos >= Len(sv) \/ Ch(sv, minute.pos) # ":"
    THEN [has |-> FALSE]
    ELSE
    Bind(ParseDigits(sv, minute.pos + 1, 2), LAMBDA second :
    IF ~second.has \/ second.value > 59
    THEN [has |-> FALSE]
    ELSE [has |-> TRUE, pos |-> second.pos, hour |-> hour.value,
          minute |-> minute.value, second |-> second.value])))

\* The date with hour, minute, second and the variant written.
setClock(date, clock, type) ==
    [setSecond(setMinute(setHour(date, clock.hour), clock.minute), clock.second)
       EXCEPT !.m_type = type]

\* What a function declared noexcept makes of a result: an exception that
\* would leave it ends the process.
noexcept(r) == IF r.st = "error" THEN Terminate(r.msg) ELSE r

\* parseTimePart (noexcept): matched tells whether the whole text was read.
parseTimePart(date, sv, position) ==
    Bind(parseClock(sv, position), LAMBDA clock :
    IF ~clock.has THEN [st |-> "ok", matched |-> FALSE, date |-> date]
    ELSE
    Bind(IF clock.pos < Len(sv) /\ Ch(sv, clock.pos) = "."
         THEN parseSubSecond(setClock(date, clock, "LOCAL_DATE_TIME"), sv, clock.pos + 1)
         ELSE [st |-> "ok", pos |-> clock.pos,
               date |-> setClock(date, clock, "LOCAL_DATE_TIME")], LAMBDA sub :
    IF sub.st # "ok" THEN noexcept(sub)
    ELSE
    Bind(IF sub.pos < Len(sv) THEN parseTimezoneOffset(sub.date, sv, sub.pos) ELSE sub,
         LAMBDA tz :
    IF tz.st # "ok" THEN noexcept(tz)
    ELSE [st |-> "ok", matched |-> tz.pos = Len(sv), date |-> tz.date])))

\* parseLocalTime (noexcept).
parseLocalTime(date, sv) ==
    Bind(parseClock(sv, 0), LAMBDA clock :
    IF ~clock.has THEN [st |-> "ok", matched |-> FALSE, date |-> date]
    ELSE
    Bind(IF clock.pos < Len(sv) /\ Ch(sv, clock.pos) = "."
         THEN parseSubSecond(setClock(date, clock, "LOCAL_TIME"), sv, clock.pos + 1)
         ELSE [st |-> "ok", pos |-> clock.pos,
               date |-> setClock(date, clock, "LOCAL_TIME")], LAMBDA sub :
    IF sub.st # "ok" THEN noexcept(sub)
    ELSE [st |-> "ok", matched |-> sub.pos = Len(sv), date |-> sub.date]))

\* Every fourth year, the rule without the century exception.
isLeapYearJulian(year) == year % 4 = 0

isLeapYear(year) == (year % 4 = 0 /\ year % 100 # 0) \/ year % 400 = 0

daysInMonth == <<31, 28, 31, 30, 31, 30, 31, 31, 30, 31, 30, 31>>

maxDays(year, month) ==
    IF month = 2 /\ isLeapYear(year) THEN 29 ELSE daysInMonth[month]

\* parseDateTime: not noexcept, a wrong separator is thrown to the caller.
parseDateTime(date, sv) ==
    Bind(ParseDigits(sv, 0, 4), LAMBDA year :
    IF ~year.has \/ year.pos >= Len(sv) \/ Ch(sv, year.pos) # "-"
    THEN [st |-> "ok", matched |-> FALSE, date |-> date]
    ELSE
    Bind(ParseDigits(sv, year.pos + 1, 2), LAMBDA month :
    IF ~month.has \/ month.value < 1 \/ month.value > 12 \/ month.pos >= Len(sv)
       \/ Ch(sv, month.pos) # "-"
    THEN [st |-> "ok", matched |-> FALSE, date |-> date]
    ELSE
    Bind(ParseDigits(sv, month.pos + 1, 2), LAMBDA day :
    IF ~day.has \/ day.value < 1
    THEN [st |-> "ok", matched |-> FALSE, date |-> date]
    ELSE IF day.value > maxDays(year.value, month.value)
    THEN [st |-> "ok", matched |-> FALSE, date |-> date]
    ELSE
    Bind([setDay(setMonth(setYear(date, year.value), month.value), day.value)
            EXCEPT !.m_type = "LOCAL_DATE"], LAMBDA d :
    IF day.pos = Len(sv) THEN [st |-> "ok", matched |-> TRUE, date |-> d]
    ELSE IF Ch(sv, day.pos) \notin {"T", "t", " "}
    THEN ValueError(0 - 1, "Invalid separator after date in string: " \o sv)
    ELSE parseTimePart(d, sv, day.pos + 1)))))

\* TomlDate(std::string_view): the constructor, which calls TomlDate::parse.
TomlDate(s) ==
    IF s = "" THEN ValueError(0 - 1, "Cannot parse an empty string.")
    ELSE
    Bind(parseDateTime(reset, s), LAMBDA dt :
    IF dt.st # "ok" THEN dt
    ELSE IF dt.matched THEN [st |-> "ok", date |-> dt.date]
    ELSE
    Bind(parseLocalTime(reset, s), LAMBDA lt :
    IF lt.st # "ok" THEN lt
    ELSE IF lt.matched THEN [st |-> "ok", date |-> lt.date]
    ELSE ValueError(0 - 1,
           "String does not match any valid TOML date/time format: " \o s)))

looksLikeDateTime(sv, position) ==
    \/ /\ position + 5 <= Len(sv)
       /\ \A i \in 0..3 : IS_DIGIT(Ch(sv, position + i))
       /\ Ch(sv, position + 4) = "-"
    \/ /\ position + 3 <= Len(sv)
       /\ IS_DIGIT(Ch(sv, position)) /\ IS_DIGIT(Ch(sv, position + 1))
       /\ Ch(sv, position + 2) = ":"

\* The digits at p and p + 1 as a number.
twoDigits(sv, p) == DigitVal(Ch(sv, p)) * 10 + DigitVal(Ch(sv, p + 1))

\* IS_DIGIT at every one of the offsets from p.
digitsAt(sv, p, offsets) == \A i \in offsets : IS_DIGIT(Ch(sv, p + i))

\* The optional fraction of matchFullDateTime at position: where it ends, or
\* -1 when a '.' has no digit after it.
matchFraction(sv, position) ==
    IF position < Len(sv) /\ Ch(sv, position) = "."
    THEN IF skipDigits(sv, position + 1) = position + 1 THEN 0 - 1
         ELSE skipDigits(sv, position + 1)
    ELSE position

\* The optional offset of matchFullDateTime at position: where it ends, or
\* -1 when it is malformed.
matchOffset(sv, position) ==
    IF position >= Len(sv) THEN position
    ELSE IF Ch(sv, position) \in {"Z", "z"} THEN position + 1
    ELSE IF Ch(sv, position) \in {"+", "-"}
    THEN IF position + 6 > Len(sv) THEN 0 - 1
         ELSE IF /\ digitsAt(sv, position + 1, {0, 1, 3, 4})
                 /\ Ch(sv, position + 3) = ":"
                 /\ twoDigits(sv, position + 1) <= 23
                 /\ twoDigits(sv, position + 4) <= 59
              THEN position + 6
              ELSE 0 - 1
    ELSE position

\* hh:mm:ss with its ranges at position (eight characters are there).
matchClock(sv, position) ==
    /\ digitsAt(sv, position, {0, 1, 3, 4, 6, 7})
    /\ Ch(sv, position + 2) = ":" /\ Ch(sv, position + 5) = ":"
    /\ twoDigits(sv, position) <= 23
    /\ twoDigits(sv, position + 3) <= 59
    /\ twoDigits(sv, position + 6) <= 59

\* The first branch of matchFullDateTime is taken: YYYY-MM-DD with the month
\* in 1..12 and the day in 1..31.
matchDateHead(sv) ==
    /\ Len(sv) >= 10
    /\ digitsAt(sv, 0, {0, 1, 2, 3, 5, 6, 8, 9})
    /\ Ch(sv, 4) = "-" /\ Ch(sv, 7) = "-"
    /\ twoDigits(sv, 5) >= 1 /\ twoDigits(sv, 5) <= 12
    /\ twoDigits(sv, 8) >= 1 /\ twoDigits(sv, 8) <= 31

matchFullDateTime(sv) ==
    IF sv = "" THEN FALSE
    ELSE IF matchDateHead(sv)
    THEN IF Len(sv) = 10 THEN TRUE
         ELSE IF Ch(sv, 10) \notin {"T", "t", " "} THEN FALSE
         ELSE IF 11 + 8 > Len(sv) THEN FALSE
         ELSE IF ~matchClock(sv, 11) THEN FALSE
         ELSE IF matchFraction(sv, 19) = 0 - 1 THEN FALSE
         ELSE IF matchOffset(sv, matchFraction(sv, 19)) = 0 - 1 THEN FALSE
         ELSE matchOffset(sv, matchFraction(sv, 19)) = Len(sv)
    ELSE IF Len(sv) >= 8 /\ matchClock(sv, 0)
    THEN IF matchFraction(sv, 8) = 0 - 1 THEN FALSE
         ELSE matchFraction(sv, 8) = Len(sv)
    ELSE FALSE

\* The lambda isValidChar of parseNumberOrDate.
isValidChar(c) == isalnum(c) \/ c \in {"-", ":", "T", "Z", "+", "."}

RECURSIVE dateEnd(_, _)
\* The end of the longest run of date characters from position; a blank
\* counts when a date character follows it.
dateEnd(sv, end) ==
    IF end < Len(sv)
       /\ ( \/ isValidChar(Ch(sv, end))
            \/ (Ch(sv, end) = " " /\ end + 1 < Len(sv) /\ isValidChar(Ch(sv, end + 1))) )
    THEN dateEnd(sv, end + 1)
    ELSE end

parseNumberOrDate(text, position) ==
    IF looksLikeDateTime(text, position)
    THEN Bind(dateEnd(text, position), LAMBDA end :
         Bind(substr(text, position, end - position), LAMBDA maybeDate :
         IF matchFullDateTime(maybeDate)
         THEN Bind(TomlDate(maybeDate), LAMBDA built :
              IF built.st = "ok" THEN [st |-> "ok", pos |-> end, val |-> Date(built.date)]
              ELSE IF built.st = "error" THEN ParseError(end, built.msg)
              ELSE built)
         ELSE parseNumber(text, position)))
    ELSE parseNumber(text, position)

(***************************************************************************)
(* Values, arrays, inline tables, key/value pairs                           *)
(***************************************************************************)
PARSE_STATE_INIT == 0
PARSE_STATE_HAS_VALUE == 1
PARSE_STATE_NO_VALUE == 2

RECURSIVE parseValue(_, _), parseArrayLoop(_, _, _, _), parseObjectLoop(_, _, _, _)
RECURSIVE parseKeyValue(_, _, _), parseArray(_, _), parseObject(_, _)

RECURSIVE parseKeyValueKeys(_, _, _)
\* The key loop of parseKeyValue.
parseKeyValueKeys(text, position, keys) ==
    IF position >= Len(text) THEN [st |-> "ok", pos |-> position, keys |-> keys]
    ELSE Bind(skipWhitespace(text, position), LAMBDA p :
         Bind(IF p < Len(text) /\ Ch(text, p) \in {"\"", "'"}
              THEN parseQuotedKeys(text, p)
              ELSE parseBareKey(text, p, FALSE), LAMBDA k :
         IF k.st # "ok" THEN k
         ELSE Bind(skipWhitespace(text, k.pos), LAMBDA q :
              IF q < Len(text) /\ Ch(text, q) = "."
              THEN parseKeyValueKeys(text, q + 1, Append(keys, k.str))
              ELSE [st |-> "ok", pos |-> q, keys |-> Append(keys, k.str)])))

parseKeyValue(text, position, needCrlf) ==
    LET size == Len(text)
    IN  Bind(parseKeyValueKeys(text, position, <<>>), LAMBDA ks :
        IF ks.st # "ok" THEN ks ELSE
        Bind(skipWhitespace(text, ks.pos), LAMBDA p :
        IF p >= size \/ Ch(text, p) # "=" THEN ParseError(p, "Expect = after a key") ELSE
        Bind(parseValue(text, p + 1), LAMBDA v :
        IF v.st # "ok" THEN v ELSE
        Bind(skipWhitespaceAndComment(text, v.pos), LAMBDA w :
        IF w.st # "ok" THEN w
        ELSE IF needCrlf /\ w.pos < size /\ Ch(text, w.pos) \in {"\r", "\n", "}", "]", ","}
             THEN [st |-> "ok", pos |-> skipCrlf(text, w.pos), keys |-> ks.keys, val |-> v.val]
        ELSE IF needCrlf /\ w.pos < size
             THEN ParseError(w.pos, "A line break is required after the value")
        ELSE [st |-> "ok", pos |-> w.pos, keys |-> ks.keys, val |-> v.val]))))

parseValue(text, position) ==
    Bind(skipWhitespace(text, position), LAMBDA p :
    IF p >= Len(text) THEN OutOfBounds(p)
    ELSE LET c == Ch(text, p)
         IN  IF c = "\"" \/ c = "'" THEN parseString(text, p)
             ELSE IF c = "+" \/ c = "-" \/ IS_DIGIT(c) \/ c = "i" \/ c = "n"
                  THEN parseNumberOrDate(text, p)
             ELSE IF c = "t" \/ c = "f" THEN parseBoolean(text, p)
             ELSE IF c = "[" THEN parseArray(text, p)
             ELSE IF c = "{" THEN parseObject(text, p)
             ELSE ParseError(p, "invalid value"))

\* The loop of parseArray; at is the result of the skipAll before the loop test.
parseArrayLoop(text, at, array, state) ==
    IF at.st # "ok" THEN at
    ELSE IF at.pos >= Len(text) THEN ParseError(at.pos, "Unclosed array: missing ']'")
    ELSE Bind(skipAll(text, at.pos), LAMBDA s :
         IF s.st # "ok" THEN s
         ELSE IF s.pos >= Len(text) THEN OutOfBounds(s.pos)
         ELSE IF Ch(text, s.pos) = "]"
              THEN [st |-> "ok", pos |-> s.pos + 1, val |-> Array(array)]
         ELSE IF state = PARSE_STATE_NO_VALUE
              THEN ParseError(s.pos, "Unexpected value after empty array element")
         ELSE Bind(parseValue(text, s.pos), LAMBDA v :
              IF v.st # "ok" THEN v ELSE
              Bind(skipAll(text, v.pos), LAMBDA n :
              IF n.st # "ok" THEN n
              ELSE IF n.pos < Len(text) /\ Ch(text, n.pos) = ","
                   THEN parseArrayLoop(text, [st |-> "ok", pos |-> n.pos + 1],
                                       Append(array, v.val), PARSE_STATE_HAS_VALUE)
                   ELSE parseArrayLoop(text, n, Append(array, v.val),
                                       PARSE_STATE_NO_VALUE))))

parseArray(text, position) ==
    parseArrayLoop(text, skipAll(text, position + 1), <<>>, PARSE_STATE_INIT)

RECURSIVE DescendTables(_, _, _, _)
\* for (i = 0; i < ks.size() - 1; i++) node = &(*node)[ks[i]], as it stands
\* in parseObject and twice in parse: the path of the node reached, or "none"
\* when a node on the way is not a table.
DescendTables(object, node, ks, i) ==
    IF i > Len(ks) - 1 THEN [st |-> "ok", tree |-> object, node |-> node]
    ELSE IF ~isObject(Deref(object, node)) THEN [st |-> "none"]
    ELSE LET n == IndexObject(object, node, ks[i])
         IN  DescendTables(n.tree, n.node, ks, i + 1)

\* The loop of parseObject.
parseObjectLoop(text, position, object, state) ==
    IF position >= Len(text) THEN ParseError(position, "Unclosed object: missing '}'")
    ELSE Bind(skipWhitespaceAndComment(text, position), LAMBDA w :
         IF w.st # "ok" THEN w
         ELSE IF w.pos >= Len(text) THEN OutOfBounds(w.pos)
         ELSE IF Ch(text, w.pos) = "}"
              THEN IF state # PARSE_STATE_HAS_VALUE
                   THEN [st |-> "ok", pos |-> w.pos + 1, val |-> object]
                   ELSE ParseError(w.pos, "Unclosed object: missing '}'")
         ELSE IF state = PARSE_STATE_NO_VALUE
              THEN ParseError(w.pos, "Unexpected value after empty array element")
         ELSE Bind(parseKeyValue(text, w.pos, FALSE), LAMBDA kv :
              IF kv.st # "ok" THEN kv ELSE
              Bind(DescendTables(object, <<>>, kv.keys, 1), LAMBDA t :
              IF t.st # "ok"
              THEN ParseError(kv.pos, "Cannot create nested key: parent is not an object")
              ELSE IF ~isObject(Deref(t.tree, t.node))
              THEN ParseError(kv.pos, "Cannot insert value: target is not an object")
              ELSE
              Bind(Store(t.tree, t.node,
                         insert(Deref(t.tree, t.node), kv.keys[Len(kv.keys)], kv.val)),
                   LAMBDA obj :
              Bind(skipWhitespaceAndComment(text, kv.pos), LAMBDA c :
              IF c.st # "ok" THEN c
              ELSE IF c.pos < Len(text) /\ Ch(text, c.pos) = ","
                   THEN parseObjectLoop(text, c.pos + 1, obj, PARSE_STATE_HAS_VALUE)
                   ELSE parseObjectLoop(text, c.pos, obj, PARSE_STATE_NO_VALUE))))))

parseObject(text, position) ==
    parseObjectLoop(text, position + 1, DefaultValue, PARSE_STATE_INIT)

RECURSIVE parseTableHeaderKeys(_, _, _)
\* The key loop of parseTableHeader.
parseTableHeaderKeys(text, position, headers) ==
    IF position >= Len(text) THEN [st |-> "ok", pos |-> position, keys |-> headers]
    ELSE Bind(skipWhitespace(text, position), LAMBDA p :
         Bind(IF p < Len(text) /\ Ch(text, p) \in {"\"", "'"}
              THEN parseQuotedKeys(text, p)
              ELSE parseBareKey(text, p, TRUE), LAMBDA k :
         IF k.st # "ok" THEN k
         ELSE Bind(skipWhitespace(text, k.pos), LAMBDA q :
              IF q < Len(text) /\ Ch(text, q) = "."
              THEN parseTableHeaderKeys(text, q + 1, Append(headers, k.str))
              ELSE [st |-> "ok", pos |-> q, keys |-> Append(headers, k.str)])))

\* text[position] is '['; ofArray is the code's local isArray.  The character after the keys is passed over
\* unread, and one more for an array header.
parseTableHeader(text, position, ofArray) ==
    Bind(parseTableHeaderKeys(text, position + 1 + (IF ofArray THEN 1 ELSE 0), <<>>),
         LAMBDA h :
    IF h.st # "ok" THEN h
    ELSE [st |-> "ok", pos |-> h.pos + 1 + (IF ofArray THEN 1 ELSE 0), keys |-> h.keys])

RECURSIVE parseKeyValuePairs(_, _, _)
\* keyValues holds the pairs read so far, each [keys, val].
parseKeyValuePairs(text, position, keyValues) ==
    IF position >= Len(text) THEN [st |-> "ok", pos |-> position, keyValues |-> keyValues]
    ELSE Bind(skipUselessChar(text, position), LAMBDA u :
         IF u.st # "ok" THEN u
         ELSE IF u.pos >= Len(text) \/ Ch(text, u.pos) = "["
              THEN [st |-> "ok", pos |-> u.pos, keyValues |-> keyValues]
              ELSE Bind(parseKeyValue(text, u.pos, TRUE), LAMBDA kv :
                   IF kv.st # "ok" THEN kv
                   ELSE parseKeyValuePairs(text, kv.pos,
                            Append(keyValues, [keys |-> kv.keys, val |-> kv.val]))))

(***************************************************************************)
(* parser::parse                                                            *)
(***************************************************************************)
Back(seq) == seq[Len(seq)]

RECURSIVE AssignRootKeyValues(_, _, _, _)
\* The loop over the root's key/value pairs; position is where their text ends.
AssignRootKeyValues(tree, keyValues, i, position) ==
    IF i > Len(keyValues) THEN [st |-> "ok", tree |-> tree]
    ELSE LET k == keyValues[i].keys
         IN  Bind(DescendTables(tree, <<>>, k, 1), LAMBDA t :
             IF t.st # "ok" THEN ParseError(position, "node is not a object")
             ELSE Bind(Deref(t.tree, t.node), LAMBDA n :
                  IF ~isObject(n) THEN ParseError(position, "node is not a object")
                  ELSE IF HasKey(n, Back(k))
                  THEN ParseError(position, "key '" \o Back(k) \o "' has existed")
                  ELSE AssignRootKeyValues(
                           Store(t.tree, t.node, insert(n, Back(k), keyValues[i].val)),
                           keyValues, i + 1, position)))

RECURSIVE SET_VALUE_TO_NODE(_, _, _, _, _)
\* The loop over a header's key/value pairs, storing below *node.
SET_VALUE_TO_NODE(tree, node, keyValues, i, position) ==
    IF i > Len(keyValues) THEN [st |-> "ok", tree |-> tree]
    ELSE LET ks == keyValues[i].keys
         IN  Bind(DescendTables(tree, node, ks, 1), LAMBDA t :
             IF t.st # "ok" THEN ParseError(position, "Expected object in path")
             ELSE Bind(Deref(t.tree, t.node), LAMBDA n :
                  IF ~isObject(n)
                  THEN ParseError(position, "Cannot insert key on non-object")
                  ELSE IF HasKey(n, Back(ks))
                  THEN ParseError(position, "Duplicate key '" \o Back(ks) \o "'")
                  ELSE SET_VALUE_TO_NODE(
                           Store(t.tree, t.node, insert(n, Back(ks), keyValues[i].val)),
                           node, keyValues, i + 1, position)))

\* The indices of the tables among the elements of an array.
ObjectIndices(array) == {i \in 1..Len(array) : isObject(array[i])}

\* A search from the front: the first table.
MinOf(S) == CHOOSE m \in S : \A n \in S : m <= n

MaxOf(S) == CHOOSE m \in S : \A n \in S : n <= m

\* GET_TARGET_NODE(key) on a node that is an array: the array afterwards.
TargetInArray(array, key, ofArray) ==
    IF array = <<>> \/ ObjectIndices(array) = {}
    THEN Append(array, Object(MapPut(NoEntries, key, DefaultValue)))
    ELSE Bind(MaxOf(ObjectIndices(array)), LAMBDA it :
         IF HasKey(array[it], key) THEN array
         ELSE [array EXCEPT
                 ![it] = insert(@, key, IF ofArray THEN Array(<<>>) ELSE DefaultValue)])

\* node = the child named key of *node; ofArray is the code's local isArray.
\* array.back()[key] throws TomlException, which carries no position (-1),
\* when the last element is not a table.
GET_TARGET_NODE(tree, node, key, ofArray, position) ==
    Bind(Deref(tree, node), LAMBDA v :
    IF isObject(v)
    THEN Bind(IndexObject(tree, node, key), LAMBDA n :
              [st |-> "ok", tree |-> n.tree, node |-> n.node])
    ELSE IF isArray(v)
    THEN Bind(TargetInArray(v.a, key, ofArray), LAMBDA array :
         IF ~isObject(Back(array)) THEN ValueError(0 - 1, "not a object")
         ELSE Bind(IndexObject(Store(tree, node, Array(array)),
                               Append(node, IndexStep(Len(array))), key), LAMBDA n :
                   [st |-> "ok", tree |-> n.tree, node |-> n.node]))
    ELSE ParseError(position, "node should be a array or object"))

RECURSIVE HeaderParent(_, _, _, _, _, _)
\* for (i = 0; i < headers.size() - 1; i++) GET_TARGET_NODE(headers[i])
HeaderParent(tree, node, headers, i, ofArray, position) ==
    IF i > Len(headers) - 1 THEN [st |-> "ok", tree |-> tree, node |-> node]
    ELSE Bind(GET_TARGET_NODE(tree, node, headers[i], ofArray, position), LAMBDA g :
         IF g.st # "ok" THEN g
         ELSE HeaderParent(g.tree, g.node, headers, i + 1, ofArray, position))

\* A section loop that does not compare the node's kind with the header's.
NeverMismatch(node, ofArray) == FALSE

\* if (node->isArray() != isArray): a [[p]] header needs an array at p, a [p]
\* header anything else.
KindMismatch(node, ofArray) == isArray(node) # ofArray

\* The part of the section loop after the header and its key/values were
\* read: find the header's node, then store the key/values.
applySection(tree, ofArray, headers, keyValues, position) ==
    IF headers = <<>>
    THEN [st |-> "ub", exc |-> "", pos |-> position, msg |-> "back() of an empty vector"]
    ELSE
    Bind(HeaderParent(tree, <<>>, headers, 1, ofArray, position), LAMBDA d :
    IF d.st # "ok" THEN d ELSE
    Bind(Deref(d.tree, d.node), LAMBDA parent :
    Bind(IF ofArray /\ isObject(parent) /\ ~HasKey(parent, Back(headers))
         THEN Store(d.tree, d.node, insert(parent, Back(headers), Array(<<>>)))
         ELSE d.tree, LAMBDA t1 :
    Bind(GET_TARGET_NODE(t1, d.node, Back(headers), ofArray, position), LAMBDA g :
    IF g.st # "ok" THEN g ELSE
    Bind(Deref(g.tree, g.node), LAMBDA node :
    IF KindMismatch(node, ofArray) THEN ParseError(position, "node is not a array")
    ELSE IF isArray(node)
    THEN IF keyValues = <<>>
         THEN [st |-> "ok", tree |-> Store(g.tree, g.node, push_back(node, DefaultValue))]
         ELSE Bind(SET_VALUE_TO_NODE(DefaultValue, <<>>, keyValues, 1, position),
                   LAMBDA parent2 :
              IF parent2.st # "ok" THEN parent2
              ELSE [st |-> "ok",
                    tree |-> Store(g.tree, g.node, push_back(node, parent2.tree))])
    ELSE SET_VALUE_TO_NODE(g.tree, g.node, keyValues, 1, position))))))

\* The head of the section loop: the header line and the key/values below
\* it.  st = "end" when only blanks and a comment were left.
readSection(text, position) ==
    LET size == Len(text)
    IN  Bind(skipWhitespaceAndComment(text, position), LAMBDA w :
        IF w.st # "ok" THEN w
        ELSE IF w.pos >= size THEN [st |-> "end", pos |-> w.pos]
        ELSE IF Ch(text, w.pos) # "[" THEN ParseError(w.pos, "Expected table header")
        ELSE
        LET ofArray == w.pos + 1 < size /\ Ch(text, w.pos + 1) = "["
        IN  Bind(parseTableHeader(text, w.pos, ofArray), LAMBDA h :
        IF h.st # "ok" THEN h ELSE
        Bind(skipWhitespaceAndComment(text, h.pos), LAMBDA c :
        IF c.st # "ok" THEN c
        ELSE IF c.pos < size /\ Ch(text, c.pos) \notin {"\r", "\n"}
        THEN ParseError(c.pos, "A line break is required after the value")
        ELSE Bind(parseKeyValuePairs(text, skipCrlf(text, c.pos), <<>>), LAMBDA kv :
             IF kv.st # "ok" THEN kv
             ELSE [st |-> "ok", pos |-> kv.pos, isArray |-> ofArray,
                   headers |-> h.keys, keyValues |-> kv.keyValues]))))

\* The end of parse, after the section loop.
finishParse(text, position, tree) ==
    Bind(skipWhitespaceAndComment(text, position), LAMBDA w :
    IF w.st # "ok" THEN Fail(w)
    ELSE IF w.pos # Len(text)
         THEN ParseError(w.pos, "Unexpected content after Toml value")
         ELSE [st |-> "ok", pos |-> w.pos, root |-> tree])

RECURSIVE parseSections(_, _, _)
\* The section loop, entered at position with the document built so far,
\* and the end of parse.
parseSections(text, position, tree) ==
    IF position >= Len(text) THEN finishParse(text, position, tree)
    ELSE Bind(readSection(text, position), LAMBDA s :
         IF s.st = "end" THEN finishParse(text, s.pos, tree)
         ELSE IF s.st # "ok" THEN Fail(s)
         ELSE Bind(applySection(tree, s.isArray, s.headers, s.keyValues, s.pos), LAMBDA a :
              IF a.st # "ok" THEN Fail(a)
              ELSE parseSections(text, s.pos, a.tree)))

\* The root's key/value pairs: the part of parse before the section loop.
readRoot(text) ==
    IF 0 < Len(text) /\ Ch(text, 0) # "[" 
    THEN parseKeyValuePairs(text, 0, <<>>)
    ELSE [st |-> "ok", pos |-> 0, keyValues |-> <<>>]

parse(text) ==
    Bind(readRoot(text), LAMBDA kv :
    IF kv.st # "ok" THEN Fail(kv)
    ELSE Bind(AssignRootKeyValues(DefaultValue, kv.keyValues, 1, kv.pos), LAMBDA a :
         IF a.st # "ok" THEN Fail(a)
         ELSE parseSections(text, kv.pos, a.tree)))

(***************************************************************************)
(* The TOML serializer                                                      *)
(***************************************************************************)
RECURSIVE SortedKeys(_)
\* The keys of a std::map in iteration order.
SortedKeys(keys) ==
    IF keys = {} THEN <<>>
    ELSE LET k == CHOOSE x \in keys : \A y \in keys \ {x} : StringLess(x, y)
         IN  <<k>> \o SortedKeys(keys \ {k})

stringifyBoolean(value) == IF value.b THEN "true" ELSE "false"

stringifyInteger(value) ==
    IF "i" \in DOMAIN value THEN ToString(value.i) ELSE value.dec

RECURSIVE find_last_not_of(_, _, _)
\* The 0-based index of the last character of str, at or before i, that is
\* not c; -1 when there is none.
find_last_not_of(str, c, i) ==
    IF i < 0 THEN 0 - 1
    ELSE IF Ch(str, i) # c THEN i
    ELSE find_last_not_of(str, c, i - 1)

RECURSIVE find_first_of_e(_, _)
\* str.find_first_of("eE") from index i; -1 when there is none.
find_first_of_e(str, i) ==
    IF i >= Len(str) THEN 0 - 1
    ELSE IF Ch(str, i) \in {"e", "E"} THEN i
    ELSE find_first_of_e(str, i + 1)

\* std::stoi on an exponent text: a sign, then digits.
stoi(str) ==
    LET neg == Ch(str, 0) = "-"
        digits == IF Ch(str, 0) \in {"+", "-"} THEN SubSeq(str, 2, Len(str)) ELSE str
    IN  IF neg THEN 0 - DigitsValue(digits, 10, 0) ELSE DigitsValue(digits, 10, 0)

\* oss << std::setfill('0') << std::setw(w) << n, for n >= 0.
setw(w, n) ==
    IF Len(ToString(n)) >= w THEN ToString(n)
    ELSE SubSeq("000000000", 1, w - Len(ToString(n))) \o ToString(n)

\* The nine-digit text of the sub-second with its trailing zeros erased.
\* The nine digits with their closing zeros kept.
subSecondPadded(subSecond) == setw(9, subSecond)

subSecondText(subSecond) ==
    Bind(setw(9, subSecond), LAMBDA subStr :
    substr(subStr, 0, find_last_not_of(subStr, "0", Len(subStr) - 1) + 1))

\* The offset as Z or as sign, hours and minutes.
tzOffsetText(tzOffset) ==
    IF tzOffset = 0 THEN "Z"
    ELSE LET offsetVal == IF tzOffset > 0 THEN tzOffset ELSE 0 - tzOffset
         IN  (IF tzOffset > 0 THEN "+" ELSE "-")
             \o setw(2, offsetVal \div 60) \o ":" \o setw(2, offsetVal % 60)

\* TomlDate::toString.
TomlDate_toString(date) ==
    (IF getYear(date).has
     THEN setw(4, getYear(date).value) \o "-" \o setw(2, getMonth(date).value) \o "-"
          \o setw(2, getDay(date).value) \o (IF getHour(date).has THEN "T" ELSE "")
     ELSE "")
    \o (IF getHour(date).has
        THEN setw(2, getHour(date).value) \o ":" \o setw(2, getMinute(date).value) \o ":"
             \o setw(2, getSecond(date).value)
        ELSE "")
    \o (IF getSubSecond(date).has /\ getSubSecond(date).value > 0
        THEN "." \o subSecondText(getSubSecond(date).value)
        ELSE "")
    \o (IF getTzOffset(date).has THEN tzOffsetText(getTzOffset(date).value) ELSE "")

\* stringifyDate for the TOML output type: oss << value.asDate().
stringifyDate(value) == TomlDate_toString(value.date)

stringifyDouble(value) ==
    LET num == value.d
    IN  IF num = "nan" THEN "nan"
        ELSE IF num \in {"inf", "-inf"} THEN num
        ELSE
        LET f == DoubleFormat[num]
            isIntegerValue == f.whole /\ f.absLt1e14
            useScientific == f.absGe1e6 \/ f.absTiny
        IN  IF useScientific
            THEN LET str == f.scientific15
                     ePos == find_first_of_e(str, 0)
                 IN  IF ePos = 0 - 1 THEN str
                     ELSE LET mantissa == substr(str, 0, ePos)
                              exponent == SubSeq(str, ePos + 2, Len(str))
                              lastNonZero == find_last_not_of(mantissa, "0", Len(mantissa) - 1)
                              trimmed == IF lastNonZero # 0 - 1 /\ Ch(mantissa, lastNonZero) = "."
                                         THEN substr(mantissa, 0, lastNonZero)
                                         ELSE mantissa
                          IN  trimmed \o "e" \o ToString(stoi(exponent))
            ELSE IF isIntegerValue THEN f.fixed1
            ELSE f.general17

RECURSIVE AllBareChars(_)
AllBareChars(str) ==
    str = "" \/ ( /\ (isalnum(Ch(str, 0)) \/ Ch(str, 0) \in {"_", "-"})
                  /\ AllBareChars(SubSeq(str, 2, Len(str))) )

stringIsBareKey(str) ==
    IF str = "" THEN FALSE
    ELSE IF IS_DIGIT(Ch(str, 0)) THEN FALSE
    ELSE AllBareChars(str)

RECURSIVE EscapeChars(_)
\* The loop of stringifyString over the characters.
EscapeChars(str) ==
    IF str = "" THEN ""
    ELSE LET c == Ch(str, 0)
             esc == CASE c = "\"" -> "\\\""
                      [] c = "\\" -> "\\\\"
                      [] c = "\f" -> "\\f"
                      [] c = "\n" -> "\\n"
                      [] c = "\r" -> "\\r"
                      [] c = "\t" -> "\\t"
                      [] OTHER -> c
         IN  esc \o EscapeChars(SubSeq(str, 2, Len(str)))

stringifyString(str) == "\"" \o EscapeChars(str) \o "\""

stringifyKey(k) == IF stringIsBareKey(k) THEN k ELSE stringifyString(k)

\* A test that takes the empty array for an array of tables too.
isArrayOfOnlyTables(value) ==
    /\ value.type = "Array"
    /\ \A i \in 1..Len(value.a) : value.a[i].type = "Object"

isArrayOfTables(value) ==
    /\ value.type = "Array"
    /\ value.a # <<>>
    /\ \A i \in 1..Len(value.a) : value.a[i].type = "Object"

RECURSIVE stringifyValue(_), stringifyTomlArrayItems(_, _), stringifyInlineEntries(_, _, _)
RECURSIVE stringifyTomlObject(_, _), stringifyPlainEntries(_, _), stringifySubTables(_, _, _)
RECURSIVE stringifyArrayOfTables(_, _, _)

stringifyInlineObject(object) ==
    "{ " \o stringifyInlineEntries(object, SortedKeys(DOMAIN object), 1) \o " }"

stringifyTomlArray(value) == "[" \o stringifyTomlArrayItems(value.a, 1) \o "]"

\* The value serializer, for the TOML output type.
stringifyValue(value) ==
    CASE value.type = "Boolean" -> stringifyBoolean(value)
      [] value.type = "Integer" -> stringifyInteger(value)
      [] value.type = "Double" -> stringifyDouble(value)
      [] value.type = "String" -> stringifyString(value.s)
      [] value.type = "Date" -> stringifyDate(value)
      [] value.type = "Array" -> stringifyTomlArray(value)
      [] value.type = "Object" -> stringifyTomlObject(value.o, "")

\* The loop of stringifyTomlArray, from element i.
stringifyTomlArrayItems(array, i) ==
    IF i > Len(array) THEN ""
    ELSE (IF i > 1 THEN ", " ELSE "")
         \o (IF array[i].type = "Object" THEN stringifyInlineObject(array[i].o)
             ELSE stringifyValue(array[i]))
         \o stringifyTomlArrayItems(array, i + 1)

\* The loop of stringifyInlineObject, from the i-th key.
stringifyInlineEntries(object, keys, i) ==
    IF i > Len(keys) THEN ""
    ELSE (IF i > 1 THEN ", " ELSE "")
         \o stringifyKey(keys[i]) \o " = "
         \o (IF isObject(object[keys[i]]) THEN stringifyInlineObject(object[keys[i]].o)
             ELSE stringifyValue(object[keys[i]]))
         \o stringifyInlineEntries(object, keys, i + 1)

\* The first loop of stringifyTomlObject: the entries that are neither a
\* table nor an array of tables.
stringifyPlainEntries(object, keys) ==
    IF keys = <<>> THEN ""
    ELSE LET k == Head(keys)
             v == object[k]
         IN  (IF v.type # "Object" /\ ~isArrayOfTables(v)
              THEN stringifyKey(k) \o " = " \o stringifyValue(v) \o "\n"
              ELSE "")
             \o stringifyPlainEntries(object, Tail(keys))

\* One [[fullKey]] section per element, from element i.
stringifyArrayOfTables(array, fullKey, i) ==
    IF i > Len(array) THEN ""
    ELSE "\n[[" \o fullKey \o "]]\n" \o stringifyTomlObject(array[i].o, fullKey)
         \o stringifyArrayOfTables(array, fullKey, i + 1)

\* The second loop of stringifyTomlObject: sub-tables and arrays of tables.
stringifySubTables(object, keys, prefix) ==
    IF keys = <<>> THEN ""
    ELSE LET k == Head(keys)
             v == object[k]
             fullKey == (IF prefix # "" THEN prefix \o "." ELSE "") \o stringifyKey(k)
         IN  (IF v.type = "Object"
              THEN "\n[" \o fullKey \o "]\n" \o stringifyTomlObject(v.o, fullKey)
              ELSE IF isArrayOfTables(v) THEN stringifyArrayOfTables(v.a, fullKey, 1)
              ELSE "")
             \o stringifySubTables(object, Tail(keys), prefix)

stringifyTomlObject(object, prefix) ==
    stringifyPlainEntries(object, SortedKeys(DOMAIN object))
    \o stringifySubTables(object, SortedKeys(DOMAIN object), prefix)

\* parser::stringify(value, TO_TOML)
stringify(value) == stringifyValue(value)

(***************************************************************************)
(* The program: parse reads a text, stringify writes the document, parse    *)
(* reads what stringify wrote.  The text is given piecewise: first the      *)
(* root's key/value lines, then one header section at a time; after each    *)
(* piece the state is the outcome of parse on the text given so far.  Every *)
(* piece ends with a line feed, so that what parse does with the text so    *)
(* far does not depend on the pieces that follow.  A text parse refuses (or *)
(* never finishes) is not extended.                                         *)
(***************************************************************************)
MaxSections == 2

RootTexts ==
    { "a = 1\n",
      "a = 1\na = 2\n",
      "a = 1\na = 2\nb = 3\n",
      "a.b = 1\na.b = 2\nc = 3\n",
      "a = 1\na.b = 2\n",
      "a.b = 1\na = 2\n",
      "a.b = 1\n",
      "a = { x = 1 }\n",
      "a = { x = 1 }\na.y = 2\n",
      "a = [1, 2]\n",
      "a = [{ x = 1 }]\n",
      "a = \"s\"\n",
      "t = { a.b = 1, a.c = 2 }\n",
      "t = { a = 1, a = 2 }\n",
      "t = { a = { b = 1 }, a.c = 2 }\n",
      "a = { b = {c=1}, b.d = 2 }\n",
      "f = 0.5\n",
      "f = 1e6\n",
      "f = 1000000.0000000001\n",
      "f = 1.7976931348623157e308\n",
      "a = [\r]\n",
      "a = [1,\r2]\n",
      "a = [1, 2\n",
      "a = \"s\n" }

SectionTexts ==
    { "[a]\n",
      "[a]\nx = 1\n",
      "[a]\ny = 2\n",
      "[a]\nb.c = 1\n",
      "[a]\nx = 1\nx = 2\n",
      "[a]\nb.c = 1\nb.c = 2\nx = 3\n",
      "[a]\nx = { p = 1 }\nx.q = 2\n",
      "[a.b]\n",
      "[a.b]\nc = 2\n",
      "[a.b]\nx = 1\n",
      "[a.c]\n",
      "[a.y]\n",
      "[[a]]\n",
      "[[a]]\nx = 1\n",
      "[[a]]\ny = 2\nz = 3\n",
      "[[a.b]]\n",
      "[[a.y]]\n",
      "[[a]]\nv = [1,\r2]\n" }

NoDocument == [type |-> "None"]

NotCalled == [done |-> FALSE]

NoSection == [read |-> FALSE]

Section(ofArray, headers, keyValues) ==
    [read |-> TRUE, isArray |-> ofArray, headers |-> headers, keyValues |-> keyValues]

\* The number of header sections stored so far.
NumHeaders == Cardinality({i \in 1..Len(sections) : sections[i].headers # <<>>})

\* How a call of parse ended.
Outcome(r) ==
    IF r.st = "ok"
    THEN [st |-> "ok", root |-> r.root, exc |-> "", pos |-> 0 - 1, msg |-> ""]
    ELSE [st |-> r.st, root |-> NoDocument, exc |-> r.exc, pos |-> r.pos, msg |-> r.msg]

Settle(r) ==
    /\ status' = Outcome(r).st
    /\ root' = Outcome(r).root
    /\ exc' = Outcome(r).exc
    /\ errPos' = Outcome(r).pos
    /\ errMsg' = Outcome(r).msg

Init ==
    /\ data = ""
    /\ root = DefaultValue
    /\ status = "ok"
    /\ exc = ""
    /\ errPos = 0 - 1
    /\ errMsg = ""
    /\ sections = <<>>
    /\ last = NoSection
    /\ out = NotCalled
    /\ back = NotCalled
    /\ made = NotCalled
    /\ shown = NotCalled
    /\ escaped = NotCalled
    /\ heap = [objs |-> <<>>, fault |-> "", ops |-> 0, exc |-> "", ret |-> [call |-> "none"]]
    /\ store = [mem |-> <<>>, objs |-> <<>>, ops |-> 0, fault |-> "", exc |-> "",
                op |-> [name |-> "none"]]

\* parse on a text that is the root's key/value lines.
ParseRoot ==
    /\ data = "" /\ status = "ok" /\ sections = <<>> /\ ~out.done
    /\ \E t \in RootTexts :
         LET kv == readRoot(t)
             sec == IF kv.st = "ok" THEN Section(FALSE, <<>>, kv.keyValues) ELSE NoSection
             r == parse(t)
         IN  /\ data' = t
             /\ last' = sec
             /\ sections' = IF r.st = "ok" THEN <<sec>> ELSE sections
             /\ Settle(r)
    /\ UNCHANGED <<out, back>>
    /\ UNCHANGED dateVars
    /\ UNCHANGED escapeVars
    /\ UNCHANGED <<objectVars, storeVars>>

\* parse on the text so far followed by one more header section: the
\* section loop goes on from the end of the text so far.
ParseSection ==
    /\ status = "ok" /\ NumHeaders < MaxSections /\ ~out.done
    /\ \E s \in SectionTexts :
         LET text == data \o s
             rd == readSection(text, Len(data))
             sec == IF rd.st = "ok" THEN Section(rd.isArray, rd.headers, rd.keyValues)
                    ELSE NoSection
             r == parseSections(text, Len(data), root)
         IN  /\ data' = text
             /\ last' = sec
             /\ sections' = IF r.st = "ok" THEN Append(sections, sec) ELSE sections
             /\ Settle(r)
    /\ UNCHANGED <<out, back>>
    /\ UNCHANGED dateVars
    /\ UNCHANGED escapeVars
    /\ UNCHANGED <<objectVars, storeVars>>

\* stringify(root, TO_TOML) on the document parse returned.
Stringify ==
    /\ status = "ok" /\ data # "" /\ ~out.done
    /\ out' = [done |-> TRUE, text |-> stringify(root)]
    /\ UNCHANGED <<data, root, status, exc, errPos, errMsg, sections, last, back>>
    /\ UNCHANGED dateVars
    /\ UNCHANGED escapeVars
    /\ UNCHANGED <<objectVars, storeVars>>

\* parse on the text stringify returned.
Reparse ==
    /\ out.done /\ ~back.done
    /\ back' = [done |-> TRUE, res |-> Outcome(parse(out.text))]
    /\ UNCHANGED <<data, root, status, exc, errPos, errMsg, sections, last, out>>
    /\ UNCHANGED dateVars
    /\ UNCHANGED escapeVars
    /\ UNCHANGED <<objectVars, storeVars>>

Next == ParseRoot \/ ParseSection \/ Stringify \/ Reparse

Spec == Init /\ [][Next]_vars

(***************************************************************************)
(* The date run: a program that constructs one TomlDate from a string and   *)
(* prints it                                                                *)
(***************************************************************************)
\* The offsets ±HH:MM written with HH in 0..23 and MM in 0..59.
OffsetSuffix(sign, hh, mm) == sign \o setw(2, hh) \o ":" \o setw(2, mm)

OffsetText(sign, hh, mm) == "2000-01-01T00:00:00" \o OffsetSuffix(sign, hh, mm)

OffsetTexts == { OffsetText(sign, hh, mm) : sign \in {"+", "-"}, hh \in 0..23, mm \in 0..59 }

\* Strings of the grammar, one of each variant, and strings that leave it.
GrammarTexts ==
    { "2000-01-01T00:00:00Z", "2000-01-01t00:00:00z", "2000-01-01 00:00:00.5-01:30",
      "2000-01-01T00:00:00", "2000-01-01T00:00:00.125", "2000-01-01",
      "12:00:00", "12:00:00.1234567891", "2000-02-29", "1979-05-27T07:32:00.999999" }

DeviantTexts ==
    { "", "12:00:00.", "2000-01-01T00:00:00.", "2000-01-01T00:00:00+24:00",
      "2000-01-01T00:00:00+05", "2000-01-01T00:00:00.5+0a:00",
      "2000-01-01T00:00:00+05:60", "2000-01-01T00:00:00Zx", "2000-01-01x",
      "2000-01-01T", "2000-01-01 ", "2001-02-29", "2000-13-01", "2000-00-10",
      "2000-01-00", "2000-01-32", "12:00:00+01:00", "24:00:00", "12:60:00",
      "12:00:60", "12:00", "2000-1-01", "20000-01-01", "12:00:00x", "x" }

\* Strings with fractional seconds: short, with closing zeros, all zero, of
\* nine digits and of more, after each separator.
FractionTexts ==
    { "12:00:00.5000", "12:00:00.000", "12:00:00.050", "12:00:00.123456789",
      "12:00:00.1234567899", "12:00:00.0000000001", "12:00:00.1234567800",
      "2000-01-01 00:00:00", "2000-01-01t00:00:00.250",
      "2000-01-01 00:00:00.1234567891Z", "2000-01-01 00:00:00.1234567899Z",
      "0001-02-03T04:05:06.007+08:09" }

DateTexts == OffsetTexts \cup GrammarTexts \cup DeviantTexts \cup FractionTexts

\* TomlDate date(s);
Construct ==
    /\ ~made.done
    /\ \E s \in DateTexts :
          made' = [done |-> TRUE, text |-> s, res |-> TomlDate(s), last |-> "construct"]
    /\ UNCHANGED shown
    /\ UNCHANGED parseVars
    /\ UNCHANGED escapeVars
    /\ UNCHANGED <<objectVars, storeVars>>

\* date.toString();
toString ==
    /\ made.done
    /\ made.res.st = "ok"
    /\ ~shown.done
    /\ shown' = [done |-> TRUE, text |-> TomlDate_toString(made.res.date)]
    /\ UNCHANGED made
    /\ UNCHANGED parseVars
    /\ UNCHANGED escapeVars
    /\ UNCHANGED <<objectVars, storeVars>>

\* The dates a program assigns from: one of each variant, with and without
\* a fraction of a second.
SourceTexts ==
    { "2000-01-01T00:00:00Z", "2000-01-01 00:00:00.5-01:30", "2000-01-01T00:00:00.125",
      "2000-01-01", "07:32:00", "12:00:00.1234567891" }

DateSources == { [text |-> s, date |-> TomlDate(s).date] : s \in SourceTexts }

\* date.reset();
ResetDate ==
    /\ made.done
    /\ made.res.st = "ok"
    /\ made' = [made EXCEPT !.res.date = reset, !.last = "reset"]
    /\ shown' = NotCalled
    /\ UNCHANGED parseVars
    /\ UNCHANGED escapeVars
    /\ UNCHANGED <<objectVars, storeVars>>

\* TomlDate other(s); date = other;
AssignDate ==
    /\ made.done
    /\ made.res.st = "ok"
    /\ \E other \in DateSources :
          made' = [made EXCEPT !.text = other.text, !.res.date = other.date,
                               !.last = "assign"]
    /\ shown' = NotCalled
    /\ UNCHANGED parseVars
    /\ UNCHANGED escapeVars
    /\ UNCHANGED <<objectVars, storeVars>>

\* date = std::move(other); the members of other, which is left INVALID.
\* There is no test for other being the date itself: the date then takes
\* its own members and is left INVALID as the source.
MoveAssignDate ==
    /\ made.done
    /\ made.res.st = "ok"
    /\ \/ \E other \in DateSources :
             made' = [made EXCEPT !.text = other.text, !.res.date = other.date,
                                  !.last = "move"]
       \/ made' = [made EXCEPT !.res.date = reset, !.last = "moved"]
    /\ shown' = NotCalled
    /\ UNCHANGED parseVars
    /\ UNCHANGED escapeVars
    /\ UNCHANGED <<objectVars, storeVars>>

\* TomlDate taken(std::move(date)); the date is the source and is left
\* INVALID; taken, which has its members, is not followed further.
MoveConstructDate ==
    /\ made.done
    /\ made.res.st = "ok"
    /\ made' = [made EXCEPT !.res.date = reset, !.last = "moved"]
    /\ shown' = NotCalled
    /\ UNCHANGED parseVars
    /\ UNCHANGED escapeVars
    /\ UNCHANGED <<objectVars, storeVars>>

\* The date holds the value of TomlDate(made.text), or the construction failed.
Parsed == made.done /\ made.last \notin {"reset", "moved"}

DateNext ==
    \/ Construct \/ toString \/ ResetDate \/ AssignDate \/ MoveAssignDate
    \/ MoveConstructDate

DateSpec == Init /\ [][DateNext]_vars

(***************************************************************************)
(* The value run: a program that parses a one-line document `key = value`,  *)
(* prints the document and parses the print                                  *)
(***************************************************************************)
Years == {0, 4, 100, 1900, 1999, 2000, 2001, 2004, 2100, 2400, 9996, 9999}

Months == 0..13

Days == {0, 1, 28, 29, 30, 31, 32}

DateTails == {"", "T00:00:00Z"}

DateLiteral(year, month, day, tail) ==
    setw(4, year) \o "-" \o setw(2, month) \o "-" \o setw(2, day) \o tail

DateDoc(year, month, day, tail) == "d = " \o DateLiteral(year, month, day, tail) \o "\n"

DateDocs == { DateDoc(y, mo, d, tail) : y \in Years, mo \in Months, d \in Days, tail \in DateTails }

\* Numeric literals with underscores: a sign or a base prefix, then a body of
\* up to MaxBody characters '1' and '_'; and floats with an underscore at
\* each place of the literal.
MaxBody == 4

RECURSIVE Words(_)
Words(n) == IF n = 0 THEN {""} ELSE { w \o c : w \in Words(n - 1), c \in {"1", "_"} }

Bodies == UNION { Words(n) : n \in 1..MaxBody }

NumberPrefixes == {"", "+", "-", "0x", "0o", "0b"}

FloatLiterals ==
    { "1_0_0.0e+0_1", "1.5_5", "1e1_0", "1_0.5", "1_.0", "1._0", "1e_1", "1.0_",
      "1e1_", "1e+_1", "1_e1", "1.0e_1", "1e+1_", "1.0e1__0", "1__0.5", "_1.5" }

UnderscoreLiterals == { p \o b : p \in NumberPrefixes, b \in Bodies } \cup FloatLiterals

ValueDoc(literal) == "k = " \o literal \o "\n"

NumberDocs == { ValueDoc(l) : l \in UnderscoreLiterals }

\* Integer literals at the two ends of the 64-bit range, in each base, each
\* with the decimal text of its value when the value is in the range.
HexDigits == <<"0", "1", "2", "3", "4", "5", "6", "7", "8", "9", "a", "b", "c", "d", "e", "f">>

Ones(n) == SubSeq("111111111111111111111111111111111111111111111111111111111111111", 1, n)

Zeros(n) == SubSeq("000000000000000000000000000000000000000000000000000000000000000", 1, n)

InRange(literal, dec) == [literal |-> literal, inRange |-> TRUE, dec |-> dec]

OutOfRange(literal) == [literal |-> literal, inRange |-> FALSE, dec |-> ""]

RangeRows ==
    \* 922337203685477580d and its negative: up to 2^63 - 1 and down to -2^63.
       { IF d <= 7 THEN InRange("922337203685477580" \o ToString(d), "922337203685477580" \o ToString(d))
                   ELSE OutOfRange("922337203685477580" \o ToString(d)) : d \in 0..9 }
    \cup { IF d <= 8 THEN InRange("-922337203685477580" \o ToString(d), "-922337203685477580" \o ToString(d))
                   ELSE OutOfRange("-922337203685477580" \o ToString(d)) : d \in 0..9 }
    \* 0x7ffffffffffffffX is 2^63 - 16 + X, 0x800000000000000X is 2^63 + X.
    \cup { InRange("0x7ffffffffffffff" \o HexDigits[x + 1], "9223372036854775" \o ToString(792 + x)) : x \in 0..15 }
    \cup { OutOfRange("0x800000000000000" \o HexDigits[x + 1]) : x \in 0..15 }
    \* 0o77777777777777777777X is 2^63 - 8 + X.
    \cup { InRange("0o77777777777777777777" \o ToString(x), "9223372036854775" \o ToString(800 + x)) : x \in 0..7 }
    \cup { OutOfRange("0o100000000000000000000" \o ToString(x)) : x \in 0..7 }
    \* 62 ones and one more bit are 2^63 - 2 + b; a one and 63 more digits are 2^63 or more.
    \cup { InRange("0b" \o Ones(62) \o ToString(b), "922337203685477580" \o ToString(6 + b)) : b \in 0..1 }
    \cup { OutOfRange("0b1" \o Zeros(62) \o ToString(b)) : b \in 0..1 }
    \* Values inside the range and far outside of it.
    \cup { InRange("4294967296", "4294967296"), InRange("-4294967296", "-4294967296"),
           InRange("0x100000000", "4294967296"), InRange("0o40000000000", "4294967296"),
           InRange("0b1" \o Zeros(32), "4294967296"),
           InRange("0x" \o Zeros(20) \o "100000000", "4294967296"),
           InRange("+9223372036854775807", "9223372036854775807"),
           InRange("9_223_372_036_854_775_807", "9223372036854775807"),
           OutOfRange("0xffffffffffffffff"), OutOfRange("18446744073709551616"),
           OutOfRange("18446744073709551617"), OutOfRange("99999999999999999999999"),
           OutOfRange("-18446744073709551615"), OutOfRange("0x10000000000000000"),
           OutOfRange("0b" \o Ones(63) \o "1"), OutOfRange("0o2000000000000000000000") }

RangeDocs == { ValueDoc(row.literal) : row \in RangeRows }

\* Multi-line strings "a" closed by a run of 3 to MaxRun quotes, as the value
\* of the key or as the first element of an array, with the text after it.
MaxRun == 7

Run(q, n) == IF q = "'" THEN SubSeq("''''''''''", 1, n) ELSE SubSeq("\"\"\"\"\"\"\"\"\"\"", 1, n)

AfterElement == {"", ",1", ", 1", ",\"y\"", ", \"y\"", ",'y'", " ,'y'", " , 'y'"}

AfterValue == {"", " # c", "#\"", "#'", " # \"\"", " #''"}

MultiLineRows ==
    { [text |-> "k = [" \o Run(q, 3) \o "a" \o Run(q, n) \o s \o "]\n",
       q |-> q, run |-> n, inArray |-> TRUE] :
          q \in {"\"", "'"}, n \in 3..MaxRun, s \in AfterElement }
    \cup
    { [text |-> "k = " \o Run(q, 3) \o "a" \o Run(q, n) \o s \o "\n",
       q |-> q, run |-> n, inArray |-> FALSE] :
          q \in {"\"", "'"}, n \in 3..MaxRun, s \in AfterValue }

MultiLineDocs == { row.text : row \in MultiLineRows }

ValueTexts == DateDocs \cup NumberDocs \cup RangeDocs \cup MultiLineDocs

\* parse on a text that is one key/value line.
ParseValue ==
    /\ data = "" /\ status = "ok" /\ sections = <<>> /\ ~out.done
    /\ \E t \in ValueTexts :
         /\ data' = t
         /\ Settle(parse(t))
    /\ UNCHANGED <<sections, last, out, back>>
    /\ UNCHANGED dateVars
    /\ UNCHANGED escapeVars
    /\ UNCHANGED <<objectVars, storeVars>>

ValueNext == ParseValue \/ Stringify \/ Reparse

ValueSpec == Init /\ [][ValueNext]_vars

(***************************************************************************)
(* The escape run: parseUnicodeString on the escape of a basic string       *)
(***************************************************************************)
\* Escapes \uXXXX and \UXXXXXXXX with digits, signs and other characters at
\* each place, and escapes with too few characters.
EscapeTexts ==
    { "u" \o a \o b \o c \o d :
         a \in {"0", "1", "D", "d", "E", "F", "-", "+"}, b \in {"0", "7", "8", "F", "G"},
         c \in {"0", "8", "F", "-"}, d \in {"0", "1", "F", "f", " "} }
    \cup
    { "U" \o p \o q :
         p \in {"0000", "0001", "0010", "0011", "-000", "+000", "7FFF", "8000", "FFFF", "000G"},
         q \in {"0000", "0041", "007F", "0080", "07FF", "0800", "D7FF", "D800", "DFFF",
                "E000", "FFFF", "F60 "} }
    \cup { "u", "u1", "u12", "u123", "U", "U0000", "U0000004", "u-", "u-041" }

\* The document with a basic string that holds the escape and nothing else.
EscapeDoc(t) == ValueDoc("\"\\" \o t \o "\"")

\* The place of the 'u' or 'U' in EscapeDoc.
EscapeAt == 6

\* result += parseUnicodeString(data, position);
ParseUnicode ==
    /\ ~escaped.done
    /\ \E t \in EscapeTexts :
          escaped' = [done |-> TRUE, text |-> t,
                      res |-> parseUnicodeString(EscapeDoc(t), EscapeAt)]
    /\ UNCHANGED parseVars
    /\ UNCHANGED dateVars
    /\ UNCHANGED <<objectVars, storeVars>>

EscapeNext == ParseUnicode

EscapeSpec == Init /\ [][EscapeNext]_vars

(***************************************************************************)
(* The object run: a program that holds TomlValue objects and applies the   *)
(* operations of the class to them.  An object is its tag m_type and its    *)
(* union m_value: a scalar, or the pointer to a payload, which nullptr      *)
(* stands for when it is null.                                              *)
(***************************************************************************)
MaxObjects == 3

MaxOps == 4

nullptr == [null |-> TRUE]

ValueObject(v) == [m_type |-> v.type, m_value |-> v]

\* The tags whose union member is a pointer.
PointerTypes == {"String", "Date", "Array", "Object"}

\* What a move leaves in its source: m_type = Object, m_value.object = nullptr.
MovedFrom == [m_type |-> "Object", m_value |-> nullptr]

\* *other.m_value.<member> on a null pointer.
NullDeref(obj) == obj.m_type \in PointerTypes /\ obj.m_value = nullptr

\* An operation that has undefined behaviour: what the program does from
\* there on is not determined, and the run ends.
\* What the latest accessor call returned; none when the latest operation
\* was no accessor call.
NoReturn == [call |-> "none"]

UndefinedBehaviour(h) ==
    [h EXCEPT !.fault = "ub", !.ops = @ + 1, !.exc = "", !.ret = NoReturn]

Done(h, objs) == [h EXCEPT !.objs = objs, !.ops = @ + 1, !.exc = "", !.ret = NoReturn]

Thrown(h, what) == [h EXCEPT !.ops = @ + 1, !.exc = what, !.ret = NoReturn]

\* TomlValue v(value);
construct(h, v) == Done(h, Append(h.objs, ValueObject(v)))

\* TomlValue v(other);
copyConstruct(h, other) ==
    IF NullDeref(h.objs[other]) THEN UndefinedBehaviour(h)
    ELSE Done(h, Append(h.objs, h.objs[other]))

\* TomlValue v(std::move(other));
moveConstruct(h, other) ==
    Done(h, Append([h.objs EXCEPT ![other] = MovedFrom], h.objs[other]))

\* self = other;
copyAssign(h, self, other) ==
    IF self = other THEN Done(h, h.objs)
    ELSE IF NullDeref(h.objs[other]) THEN UndefinedBehaviour(h)
    ELSE Done(h, [h.objs EXCEPT ![self] = h.objs[other]])

\* self = std::move(other);
moveAssign(h, self, other) ==
    IF self = other THEN Done(h, h.objs)
    ELSE Done(h, [h.objs EXCEPT ![self] = h.objs[other], ![other] = MovedFrom])

\* self.insert(key, value); for an object value.  When value is self, the
\* slot of the key lies in the map that the assignment to the slot copies:
\* the copy reads the slot after destroyValue() has emptied it.
insertObject(h, self, key, value) ==
    IF h.objs[self].m_type = "Object" /\ h.objs[self].m_value = nullptr
    THEN UndefinedBehaviour(h)
    ELSE IF self = value THEN UndefinedBehaviour(h)
    ELSE IF NullDeref(h.objs[value]) THEN UndefinedBehaviour(h)
    ELSE Done(h, [h.objs EXCEPT ![self] =
            ValueObject(insert(h.objs[self].m_value, key, h.objs[value].m_value))])

\* if (!isArray()) { destroyValue(); m_type = Array; m_value.array = new TomlArray(); }
emptied(obj) == IF obj.m_type = "Array" THEN obj ELSE ValueObject(Array(<<>>))

\* self.push_back(value); for an object value, which is read after self has
\* become an array: when value is self, what is appended is the array.
pushBackObject(h, self, value) ==
    Bind([h.objs EXCEPT ![self] = emptied(h.objs[self])], LAMBDA objs :
      IF NullDeref(objs[value]) THEN UndefinedBehaviour(h)
      ELSE Done(h, [objs EXCEPT ![self] =
              ValueObject(push_back(objs[self].m_value, objs[value].m_value))]))

\* self[key]; the operator of a non-const object.
subscript(h, self, key) ==
    IF h.objs[self].m_type # "Object" THEN Thrown(h, "not a object")
    ELSE IF h.objs[self].m_value = nullptr THEN UndefinedBehaviour(h)
    ELSE IF HasKey(h.objs[self].m_value, key) THEN Done(h, h.objs)
    ELSE Done(h, [h.objs EXCEPT ![self] =
            ValueObject(insert(h.objs[self].m_value, key, DefaultValue))])

\* self = {a, b}; for objects a, b: the list holds copies of them, and the
\* array copies of those.
listAssign(h, self, init) ==
    IF \E i \in DOMAIN init : NullDeref(h.objs[init[i]]) THEN UndefinedBehaviour(h)
    ELSE Done(h, [h.objs EXCEPT ![self] =
            ValueObject(Array([i \in DOMAIN init |-> h.objs[init[i]].m_value]))])

RECURSIVE assignEach(_, _, _)
\* for (const auto& [k, v] : init) (*m_value.object)[k] = v;
assignEach(o, objs, init) ==
    IF init = <<>> THEN o
    ELSE assignEach(MapPut(o, Head(init).key, objs[Head(init).value].m_value), objs, Tail(init))

\* self = {{key, a}, {key, b}}; for pairs of a key and an object.
pairsAssign(h, self, init) ==
    IF \E i \in DOMAIN init : NullDeref(h.objs[init[i].value]) THEN UndefinedBehaviour(h)
    ELSE Done(h, [h.objs EXCEPT ![self] =
            ValueObject(Object(assignEach(NoEntries, h.objs, init)))])

\* self = {x, y}; for values written in the list, host values that are no
\* pairs or TomlValue temporaries: emplace_back(TomlValue(item)).
itemsAssign(h, self, init) ==
    Done(h, [h.objs EXCEPT ![self] = ValueObject(Array(init))])

\* self[key]; for an integral key, the operator of a non-const object.
subscriptIndex(h, self, key) ==
    IF h.objs[self].m_type # "Array" THEN Thrown(h, "not a array")
    ELSE IF key < 0 THEN Thrown(h, "Negative Array index")
    ELSE IF key < Len(h.objs[self].m_value.a) THEN Done(h, h.objs)
    ELSE Done(h, [h.objs EXCEPT ![self] =
            ValueObject(Array([i \in 1..(key + 1) |->
                                 IF i <= Len(h.objs[self].m_value.a)
                                 THEN h.objs[self].m_value.a[i] ELSE DefaultValue]))])

\* The values the program constructs objects from.
NewValues ==
    { DefaultValue, Boolean(TRUE), Integer(1), String("s"), Array(<<>>),
      Date(TomlDate("2000-01-01").date) }

ObjectKeys == {"k"}

\* The indices the program asks an array for.
ArrayIndices == {0 - 1, 0, 2}

\* The lists the program writes down, of one element and of two.
ListsOf(S) == UNION { [1..n -> S] : n \in 1..2 }

\* The values written in a list.
ListItems == {Integer(1), String("s")}

Running == heap.fault = "" /\ heap.ops < MaxOps

Objects == 1..Len(heap.objs)

NewValue ==
    /\ Running /\ Len(heap.objs) < MaxObjects
    /\ \E v \in NewValues : heap' = construct(heap, v)
    /\ UNCHANGED <<parseVars, dateVars, escapeVars, storeVars>>

CopyConstruct ==
    /\ Running /\ Len(heap.objs) < MaxObjects
    /\ \E other \in Objects : heap' = copyConstruct(heap, other)
    /\ UNCHANGED <<parseVars, dateVars, escapeVars, storeVars>>

MoveConstruct ==
    /\ Running /\ Len(heap.objs) < MaxObjects
    /\ \E other \in Objects : heap' = moveConstruct(heap, other)
    /\ UNCHANGED <<parseVars, dateVars, escapeVars, storeVars>>

CopyAssign ==
    /\ Running
    /\ \E self \in Objects, other \in Objects : heap' = copyAssign(heap, self, other)
    /\ UNCHANGED <<parseVars, dateVars, escapeVars, storeVars>>

MoveAssign ==
    /\ Running
    /\ \E self \in Objects, other \in Objects : heap' = moveAssign(heap, self, other)
    /\ UNCHANGED <<parseVars, dateVars, escapeVars, storeVars>>

Insert ==
    /\ Running
    /\ \E self \in Objects, value \in Objects, key \in ObjectKeys :
          heap' = insertObject(heap, self, key, value)
    /\ UNCHANGED <<parseVars, dateVars, escapeVars, storeVars>>

PushBack ==
    /\ Running
    /\ \E self \in Objects, value \in Objects : heap' = pushBackObject(heap, self, value)
    /\ UNCHANGED <<parseVars, dateVars, escapeVars, storeVars>>

Subscript ==
    /\ Running
    /\ \E self \in Objects, key \in ObjectKeys : heap' = subscript(heap, self, key)
    /\ UNCHANGED <<parseVars, dateVars, escapeVars, storeVars>>

ListAssign ==
    /\ Running
    /\ \E self \in Objects, init \in ListsOf(Objects) : heap' = listAssign(heap, self, init)
    /\ UNCHANGED <<parseVars, dateVars, escapeVars, storeVars>>

PairsAssign ==
    /\ Running
    /\ \E self \in Objects,
          init \in ListsOf({ [key |-> key, value |-> value] :
                                key \in ObjectKeys, value \in Objects }) :
          heap' = pairsAssign(heap, self, init)
    /\ UNCHANGED <<parseVars, dateVars, escapeVars, storeVars>>

ItemsAssign ==
    /\ Running
    /\ \E self \in Objects, init \in ListsOf(ListItems) : heap' = itemsAssign(heap, self, init)
    /\ UNCHANGED <<parseVars, dateVars, escapeVars, storeVars>>

SubscriptIndex ==
    /\ Running
    /\ \E self \in Objects, key \in ArrayIndices : heap' = subscriptIndex(heap, self, key)
    /\ UNCHANGED <<parseVars, dateVars, escapeVars, storeVars>>

ObjectNext ==
    \/ NewValue \/ CopyConstruct \/ MoveConstruct \/ CopyAssign \/ MoveAssign
    \/ Insert \/ PushBack \/ Subscript
    \/ ListAssign \/ PairsAssign \/ ItemsAssign \/ SubscriptIndex

ObjectSpec == Init /\ [][ObjectNext]_vars

(***************************************************************************)
(* The access run: a program that constructs TomlValue objects and asks     *)
(* them for host values, through the conversion operators, through get<T>() *)
(* and through the as...() accessors.                                       *)
(***************************************************************************)
AccessValues ==
    NewValues \cup { Boolean(FALSE), Integer(0), Integer(0 - 1), Integer(70000),
                     Double("1.5"), Double("-1.5"), Double("0.5"), Double("3"),
                     Double("0"), Double("-0"), Double("-0.5"), Double("70000.5"),
                     Double("1.0000000000000001e-05"), Double("10000000000"),
                     Double("1.7976931348623157e+308"), Double("inf"), Double("nan"),
                     Integer64("9223372036854775807") }

\* The text of a double, or of an integer, without its sign.
Magnitude(text) == IF Ch(text, 0) = "-" THEN SubSeq(text, 2, Len(text)) ELSE text

\* std::isfinite, for the double named by the text d.
Finite(d) == Magnitude(d) \notin {"inf", "nan"}

\* The text d up to its exponent.
Mantissa(d) ==
    IF find_first_of_e(d, 0) < 0 THEN Magnitude(d)
    ELSE Magnitude(SubSeq(d, 1, find_first_of_e(d, 0)))

\* The decimal exponent the text d closes with, 0 when it has none.
Exponent(d) ==
    IF find_first_of_e(d, 0) < 0 THEN 0
    ELSE stoi(SubSeq(d, find_first_of_e(d, 0) + 2, Len(d)))

RECURSIVE PointAt(_, _)
\* The index of the point of a mantissa, its length when it has none.
PointAt(text, position) ==
    IF position >= Len(text) \/ Ch(text, position) = "." THEN position
    ELSE PointAt(text, position + 1)

RECURSIVE ZeroDigits(_)
\* n zeros.
ZeroDigits(n) == IF n <= 63 THEN Zeros(n) ELSE Zeros(63) \o ZeroDigits(n - 63)

RECURSIVE WithoutLeadingZeros(_)
\* A decimal text without the zeros it opens with; zero is "0".
WithoutLeadingZeros(dec) ==
    IF Len(dec) > 1 /\ Ch(dec, 0) = "0" THEN WithoutLeadingZeros(SubSeq(dec, 2, Len(dec)))
    ELSE IF dec = "" THEN "0"
    ELSE dec

\* The digits of the magnitude of the text d before its point, the exponent
\* applied: what a conversion to an integer type keeps, which truncates
\* toward zero.
WholePart(d) ==
    Bind(Mantissa(d), LAMBDA m :
    Bind(PointAt(m, 0), LAMBDA point :
    Bind(SubSeq(m, 1, point) \o SubSeq(m, point + 2, Len(m)), LAMBDA digits :
    Bind(point + Exponent(d), LAMBDA whole :
      IF whole <= 0 THEN "0"
      ELSE IF whole <= Len(digits) THEN WithoutLeadingZeros(SubSeq(digits, 1, whole))
      ELSE WithoutLeadingZeros(digits \o ZeroDigits(whole - Len(digits)))))))

\* The decimal texts of 2^53 .. 2^63: from 2^53 on the doubles are whole
\* numbers, and twice as far apart from each of these on.
DoubleSteps ==
    << "9007199254740992", "18014398509481984", "36028797018963968",
       "72057594037927936", "144115188075855872", "288230376151711744",
       "576460752303423488", "1152921504606846976", "2305843009213693952",
       "4611686018427387904", "9223372036854775808" >>

\* The decimal text of 2^(bits - 1), the magnitude of the least intN_t.
MinMagnitude(bits) ==
    IF bits = 64 THEN Int64MinMagnitude
    ELSE IF bits = 32 THEN "2147483648"
    ELSE ToString(Pow2(bits - 1))

\* a < b for decimal texts without leading zeros.
DecBelow(a, b) == ~DecLessEq(b, a)

RECURSIVE DecMod(_, _, _)
\* (acc * 10^Len(dec) + dec) % m, for a decimal text dec and m <= 2^16.
DecMod(dec, m, acc) ==
    IF dec = "" THEN acc
    ELSE DecMod(SubSeq(dec, 2, Len(dec)), m, (acc * 10 + DigitVal(Ch(dec, 0))) % m)

RECURSIVE DecSub(_, _, _)
\* The digits of dec[1..i] - borrow, for a borrow that dec[1..i] holds.
DecSub(dec, i, borrow) ==
    IF i = 0 THEN ""
    ELSE Bind(DigitVal(Ch(dec, i - 1)) - borrow, LAMBDA x :
           DecSub(dec, i - 1, ((x % 10) - x) \div 10) \o ToString(x % 10))

\* The distance between two doubles next to the whole number dec: 2^k
\* from 2^(52+k) on (a double has 53 bits of mantissa).
Spacing(dec) ==
    Pow2(Cardinality({ k \in 1..Len(DoubleSteps) : DecLessEq(DoubleSteps[k], dec) }))

\* The double nearest to the whole number dec, a tie going to the even
\* mantissa, as a decimal text: the whole number itself below 2^53.
NearestDouble(dec) ==
    Bind(Spacing(dec), LAMBDA s :
    Bind(DecMod(dec, 2 * s, 0), LAMBDA r :
      IF 2 * (r % s) < s \/ (2 * (r % s) = s /\ r < s)
      THEN WithoutLeadingZeros(DecSub(dec, Len(dec), r % s))
      ELSE MulAdd(dec, Len(dec), 1, s - (r % s))))

\* The whole number the double of the text d is without its fraction.  A
\* text of 17 digits names the double nearest to it.
DoubleTruncated(d) == NearestDouble(WholePart(d))

\* d != 0.0, for the double named by the text d.
DoubleNonZero(d) ==
    ~Finite(d) \/ \E i \in 0..(Len(Mantissa(d)) - 1) : Ch(Mantissa(d), i) \in Digits \ {"0"}

\* The int64_t of a sign and the decimal text of a magnitude.
IntegerOf(neg, dec) ==
    IF DecLessEq(dec, SmallMax)
    THEN Integer(IF neg THEN 0 - DigitsValue(dec, 10, 0) ELSE DigitsValue(dec, 10, 0))
    ELSE Integer64(IF neg THEN "-" \o dec ELSE dec)

\* A conversion of a double to an integer type that cannot hold the
\* truncated value has undefined behaviour.
UndefinedCast == [st |-> "ub", msg |-> ""]

Returned(value) == [st |-> "ok", value |-> value]

Raised(what) == [st |-> "error", exc |-> "TomlException", msg |-> what]

\* static_cast<intN_t>(d): the double without its fraction when the type
\* holds that whole number, undefined when it does not (a whole part of
\* more than 20 digits, an infinity and a NaN included).
castDouble(bits, d) ==
    IF ~Finite(d) \/ PointAt(Mantissa(d), 0) + Exponent(d) > 20 THEN UndefinedCast
    ELSE Bind(DoubleTruncated(d), LAMBDA whole :
           IF DecBelow(whole, MinMagnitude(bits))
              \/ (Ch(d, 0) = "-" /\ whole = MinMagnitude(bits))
           THEN Returned(IntegerOf(Ch(d, 0) = "-", whole))
           ELSE UndefinedCast)

isBoolean(v) == v.type = "Boolean"

isNumber(v) == v.type \in {"Integer", "Double"}

\* static_cast<intN_t>(i) for an int64_t i of magnitude below 2^30: more
\* than 30 bits hold it as it is.
NarrowTo(bits, i) ==
    IF bits > 30 THEN i
    ELSE LET low == i % Pow2(bits)
         IN  IF low >= Pow2(bits - 1) THEN low - Pow2(bits) ELSE low

RECURSIVE DecWords(_, _, _)
\* The low 32 bits of the decimal text dec after the 16-bit words high
\* and low: <<high word, low word>>.
DecWords(dec, high, low) ==
    IF dec = "" THEN <<high, low>>
    ELSE Bind(low * 10 + DigitVal(Ch(dec, 0)), LAMBDA x :
           DecWords(SubSeq(dec, 2, Len(dec)),
                    (high * 10 + x \div Pow2(16)) % Pow2(16), x % Pow2(16)))

\* The two 16-bit words of -w, in 32 bits.
NegatedWords(w) ==
    IF w[2] = 0 THEN <<(Pow2(16) - w[1]) % Pow2(16), 0>>
    ELSE <<Pow2(16) - 1 - w[1], Pow2(16) - w[2]>>

\* The int32_t of two 16-bit words.
SignedWords(w) ==
    IF w[1] >= Pow2(15) THEN (w[1] - Pow2(16)) * Pow2(16) + w[2]
    ELSE w[1] * Pow2(16) + w[2]

\* static_cast<intN_t>(i), N 16 or 32, for an int64_t i named by its decimal
\* text: the low bits of its two's complement.
NarrowText(bits, dec) ==
    Bind(DecWords(Magnitude(dec), 0, 0), LAMBDA w :
    Bind(IF Ch(dec, 0) = "-" THEN NegatedWords(w) ELSE w, LAMBDA low :
      IF bits = 16 THEN NarrowTo(16, low[2]) ELSE SignedWords(low)))

\* The integer i as a value of the model.
Int64(i) ==
    IF i > 0 - Pow2(30) /\ i < Pow2(30) THEN Integer(i) ELSE Integer64(ToString(i))

\* printf("%.17g") of the double that is the whole number dec: its digits
\* up to 17 of them, from 18 on the nearest 17 digits and an exponent.
FormatWhole(dec) ==
    IF Len(dec) <= 17 THEN dec
    ELSE Bind(SubSeq(dec, 18, Len(dec)), LAMBDA cut :
         Bind("5" \o ZeroDigits(Len(cut) - 1), LAMBDA half :
         Bind(IF DecLess(half, cut)
                 \/ (cut = half /\ DigitVal(Ch(dec, 16)) % 2 = 1)
              THEN MulAdd(dec, 17, 1, 1) ELSE SubSeq(dec, 1, 17), LAMBDA kept :
         Bind(find_last_not_of(kept, "0", 16), LAMBDA closing :
           Ch(kept, 0) \o (IF closing > 0 THEN "." \o SubSeq(kept, 2, closing + 1) ELSE "")
           \o "e+" \o ToString(Len(dec) - 1 + Len(kept) - 17)))))

\* static_cast<double>(i) for the int64_t of the value v.
castInteger(v) ==
    IF "i" \in DOMAIN v THEN Double(ToString(v.i))
    ELSE Double((IF Ch(v.dec, 0) = "-" THEN "-" ELSE "")
                \o FormatWhole(NearestDouble(Magnitude(v.dec))))

\* TomlValue::operator bool
operator_bool(v) ==
    IF ~isBoolean(v) THEN Raised("Cannot convert to bool") ELSE Returned(Boolean(v.b))

\* TomlValue::operator int16_t, int32_t: name is the type's name.
operator_int(v, name, bits) ==
    IF ~isNumber(v) THEN Raised("Cannot convert to " \o name)
    ELSE IF v.type = "Integer"
    THEN IF "i" \in DOMAIN v THEN Returned(Integer(NarrowTo(bits, v.i)))
         ELSE Returned(Int64(NarrowText(bits, v.dec)))
    ELSE castDouble(bits, v.d)

\* TomlValue::operator int64_t
operator_int64_t(v) ==
    IF ~isNumber(v) THEN Raised("Cannot convert to int64_t")
    ELSE IF v.type = "Integer" THEN Returned(v)
    ELSE castDouble(64, v.d)

\* TomlValue::operator double
operator_double(v) ==
    IF ~isNumber(v) THEN Raised("Cannot convert to double")
    ELSE IF v.type = "Double" THEN Returned(Double(v.d))
    ELSE Returned(castInteger(v))

\* TomlValue::operator std::string
operator_string(v) ==
    IF v.type # "String" THEN Raised("Cannot convert to string") ELSE Returned(String(v.s))

\* get<T>() for an arithmetic T: target is "bool", "int64_t" or "double".
get_arithmetic(v, target) ==
    IF ~(isNumber(v) \/ isBoolean(v)) THEN Raised("Cannot convert to numeric type")
    ELSE IF v.type = "Integer"
    THEN Returned(CASE target = "bool" -> Boolean("dec" \in DOMAIN v \/ v.i # 0)
                    [] target = "int64_t" -> v
                    [] OTHER -> castInteger(v))
    ELSE IF v.type = "Boolean"
    THEN Returned(CASE target = "bool" -> Boolean(v.b)
                    [] target = "int64_t" -> Integer(IF v.b THEN 1 ELSE 0)
                    [] OTHER -> Double(IF v.b THEN "1" ELSE "0"))
    ELSE CASE target = "bool" -> Returned(Boolean(DoubleNonZero(v.d)))
           [] target = "int64_t" -> castDouble(64, v.d)
           [] OTHER -> Returned(Double(v.d))

\* asString, asDate, asArray, asObject: kind is the tag asked for.
asKind(v, kind, what) == IF v.type # kind THEN Raised(what) ELSE Returned(v)

StartsWith(text, head) == Len(text) >= Len(head) /\ SubSeq(text, 1, Len(head)) = head

\* The calls of the run, each with the host type it asks for.
Calls ==
    { [name |-> "operator bool", asks |-> "bool"],
      [name |-> "operator int16_t", asks |-> "number"],
      [name |-> "operator int32_t", asks |-> "number"],
      [name |-> "operator int64_t", asks |-> "number"],
      [name |-> "operator double", asks |-> "number"],
      [name |-> "operator std::string", asks |-> "string"],
      [name |-> "get<bool>", asks |-> "bool"],
      [name |-> "get<int64_t>", asks |-> "number"],
      [name |-> "get<double>", asks |-> "number"],
      [name |-> "get<std::string>", asks |-> "string"],
      [name |-> "get<TomlDate>", asks |-> "date"],
      [name |-> "asString", asks |-> "string"],
      [name |-> "asDate", asks |-> "date"],
      [name |-> "asArray", asks |-> "array"],
      [name |-> "asObject", asks |-> "table"] }

\* The call named name on the value v.
Call(name, v) ==
    CASE name = "operator bool" -> operator_bool(v)
      [] name = "operator int16_t" -> operator_int(v, "int16_t", 16)
      [] name = "operator int32_t" -> operator_int(v, "int32_t", 32)
      [] name = "operator int64_t" -> operator_int64_t(v)
      [] name = "operator double" -> operator_double(v)
      [] name = "operator std::string" -> operator_string(v)
      [] name = "get<bool>" -> get_arithmetic(v, "bool")
      [] name = "get<int64_t>" -> get_arithmetic(v, "int64_t")
      [] name = "get<double>" -> get_arithmetic(v, "double")
      [] name = "get<std::string>" -> operator_string(v)
      [] name = "get<TomlDate>" -> asKind(v, "Date", "not a date")
      [] name = "asString" -> asKind(v, "String", "not a string")
      [] name = "asDate" -> asKind(v, "Date", "not a date")
      [] name = "asArray" -> asKind(v, "Array", "not a array")
      [] name = "asObject" -> asKind(v, "Object", "not a object")

\* The heap after the call on object self: the objects are as they were.
access(h, self, call) ==
    LET r == Call(call.name, h.objs[self].m_value)
    IN  IF r.st = "ub" THEN UndefinedBehaviour(h)
        ELSE
        [h EXCEPT !.ops = @ + 1,
                  !.exc = IF r.st = "ok" THEN "" ELSE r.msg,
                  !.ret = [call |-> call.name, asks |-> call.asks, self |-> self,
                           thrown |-> r.st # "ok",
                           value |-> IF r.st = "ok" THEN r.value ELSE NoDocument]]

MakeValue ==
    /\ Running /\ Len(heap.objs) < MaxObjects
    /\ \E v \in AccessValues : heap' = construct(heap, v)
    /\ UNCHANGED <<parseVars, dateVars, escapeVars, storeVars>>

\* static_cast<T>(self), self.operator T()
Convert ==
    /\ Running
    /\ \E self \in Objects, call \in Calls :
          /\ StartsWith(call.name, "operator")
          /\ heap' = access(heap, self, call)
    /\ UNCHANGED <<parseVars, dateVars, escapeVars, storeVars>>

\* self.get<T>()
Get ==
    /\ Running
    /\ \E self \in Objects, call \in Calls :
          /\ StartsWith(call.name, "get")
          /\ heap' = access(heap, self, call)
    /\ UNCHANGED <<parseVars, dateVars, escapeVars, storeVars>>

\* self.asString(), asDate(), asArray(), asObject()
As ==
    /\ Running
    /\ \E self \in Objects, call \in Calls :
          /\ StartsWith(call.name, "as")
          /\ heap' = access(heap, self, call)
    /\ UNCHANGED <<parseVars, dateVars, escapeVars, storeVars>>

AccessNext == MakeValue \/ Convert \/ Get \/ As

AccessSpec == Init /\ [][AccessNext]_vars

(***************************************************************************)
(* The table run: parse on a text that grows by one header section at a    *)
(* time, the headers those of an array of tables and of what lies below    *)
(* its elements.                                                            *)
(***************************************************************************)
MaxTables == 4

TableTexts ==
    { "[[a]]\n",
      "[[a]]\nx = 1\n",
      "[a.b]\n",
      "[a.b]\nc = 2\n",
      "[[a.b]]\n",
      "[[a.b]]\nc = 2\n",
      "[[t.a]]\n",
      "[t]\na.b = 1\n" }

\* parse on the text so far followed by one more header section.
ParseTable ==
    /\ status = "ok" /\ Len(sections) < MaxTables /\ ~out.done
    /\ \E s \in TableTexts :
         LET text == data \o s
             rd == readSection(text, Len(data))
             sec == IF rd.st = "ok" THEN Section(rd.isArray, rd.headers, rd.keyValues)
                    ELSE NoSection
             r == parseSections(text, Len(data), root)
         IN  /\ data' = text
             /\ last' = sec
             /\ sections' = IF r.st = "ok" THEN Append(sections, sec) ELSE sections
             /\ Settle(r)
    /\ UNCHANGED <<out, back>>
    /\ UNCHANGED <<dateVars, escapeVars, objectVars, storeVars>>

TableNext == ParseTable

TableSpec == Init /\ [][TableNext]_vars

(***************************************************************************)
(* The write run: a program that builds a document with the constructors,  *)
(* insert and push_back, and has stringify write it as TOML.                *)
(***************************************************************************)
Entry(key, value) == insert(DefaultValue, key, value)

Entries(key1, value1, key2, value2) == insert(Entry(key1, value1), key2, value2)

\* The values of an entry: scalars, tables, and arrays that are empty, of
\* scalars, of tables only, of tables and other values, and of arrays.
EntryValues ==
    LET table == Entry("x", Integer(1))
    IN  { Integer(1), String("s"), Boolean(TRUE),
          DefaultValue, table, Entry("t", table), Entries("x", Integer(1), "t", table),
          Entry("r", Array(<<table>>)), Entry("e", Array(<<>>)),
          Array(<<>>), Array(<<Integer(1)>>),
          Array(<<table>>), Array(<<table, DefaultValue>>), Array(<<DefaultValue, table>>),
          Array(<<Entry("t", table)>>), Array(<<Entry("r", Array(<<table>>))>>),
          Array(<<Integer(1), table>>), Array(<<table, Integer(1)>>),
          Array(<<Array(<<table>>)>>), Array(<<Array(<<>>)>>) }

\* The keys of an entry: with letters, digits, '_' and '-' only, a digit
\* first or not, and with other characters, or none.
EntryKeys == {"a", "b", "B", "3", "3a", "a3", "33", "-", "_", "a-b", "a_b", "-3",
              "", " ", "a b", "a.b", "a=b", "a#", "[a]", "a\"b", "a\nb", "'a'"}

Documents ==
    {Entry(key, value) : key \in EntryKeys, value \in EntryValues}
    \cup {Entries("a", v, "b", w) : v \in EntryValues, w \in EntryValues}

\* The program builds a document.
Build ==
    /\ data = "" /\ root = DefaultValue /\ sections = <<>> /\ ~out.done
    /\ \E document \in Documents : root' = document
    /\ UNCHANGED <<data, status, exc, errPos, errMsg, sections, last, out, back>>
    /\ UNCHANGED <<dateVars, escapeVars, objectVars, storeVars>>

\* stringify(root, TO_TOML) on the document built.
Write ==
    /\ data = "" /\ ~out.done
    /\ out' = [done |-> TRUE, text |-> stringify(root)]
    /\ UNCHANGED <<data, root, status, exc, errPos, errMsg, sections, last, back>>
    /\ UNCHANGED <<dateVars, escapeVars, objectVars, storeVars>>

WriteNext == Build \/ Write

WriteSpec == Init /\ [][WriteNext]_vars

(***************************************************************************)
(* The copy run: a program that holds TomlValue objects and copies,         *)
(* assigns and grows them, also through the references operator[] gives to  *)
(* the values inside them.  Here the storage is explicit: store.mem is the  *)
(* sequence of the blocks that new has given out, a pointer is the index of *)
(* its block, and a block that delete has taken back is Freed.  The block   *)
(* of a string or of a date is the string or the date; the block of an      *)
(* array or of a table holds the TomlValue objects that are its elements.   *)
(***************************************************************************)
MaxValues == 3

MaxCalls == 4

MaxDepth == 2

Freed == [type |-> "freed"]

Pointer(a) == [ptr |-> a]

\* new T(block)
allocate(m, block) == [mem |-> Append(m, block), ptr |-> Len(m) + 1]

PointsTo(type, n) == [mem |-> n.mem, obj |-> [m_type |-> type, m_value |-> Pointer(n.ptr)]]

RECURSIVE newValue(_, _), newElements(_, _, _)
\* TomlValue(value), for a value the program writes down: the payload is a
\* new block, and so is that of each value it holds.
newValue(m, v) ==
    IF v.type \notin PointerTypes THEN [mem |-> m, obj |-> ValueObject(v)]
    ELSE IF v.type \in {"String", "Date"} THEN PointsTo(v.type, allocate(m, v))
    ELSE IF v.type = "Array"
    THEN Bind(newElements(m, v.a, <<>>), LAMBDA c :
           PointsTo("Array", allocate(c.mem, Array(c.objs))))
    ELSE Bind(SortedKeys(DOMAIN v.o), LAMBDA ks :
         Bind(newElements(m, [i \in 1..Len(ks) |-> v.o[ks[i]]], <<>>), LAMBDA c :
           PointsTo("Object", allocate(c.mem,
               Object([k \in DOMAIN v.o |-> c.objs[CHOOSE i \in 1..Len(ks) : ks[i] = k]])))))

newElements(m, values, done) ==
    IF values = <<>> THEN [mem |-> m, objs |-> done]
    ELSE Bind(newValue(m, Head(values)), LAMBDA c :
           newElements(c.mem, Tail(values), Append(done, c.obj)))

\* A copy that takes the pointer of the source as it is.
shareValue(m, other) == [mem |-> m, obj |-> other]

RECURSIVE copyValue(_, _), copyElements(_, _, _)
\* TomlValue(const TomlValue& other): new T(*other.m_value.<member>), where
\* the copy of a vector or of a map copies each element by this constructor.
copyValue(m, other) ==
    IF other.m_type \notin PointerTypes THEN [mem |-> m, obj |-> other]
    ELSE IF other.m_type \in {"String", "Date"}
    THEN PointsTo(other.m_type, allocate(m, m[other.m_value.ptr]))
    ELSE IF other.m_type = "Array"
    THEN Bind(copyElements(m, m[other.m_value.ptr].a, <<>>), LAMBDA c :
           PointsTo("Array", allocate(c.mem, Array(c.objs))))
    ELSE Bind(SortedKeys(DOMAIN m[other.m_value.ptr].o), LAMBDA ks :
         Bind(copyElements(m, [i \in 1..Len(ks) |-> m[other.m_value.ptr].o[ks[i]]], <<>>),
              LAMBDA c :
           PointsTo("Object", allocate(c.mem,
               Object([k \in DOMAIN m[other.m_value.ptr].o |->
                          c.objs[CHOOSE i \in 1..Len(ks) : ks[i] = k]])))))

copyElements(m, objs, done) ==
    IF objs = <<>> THEN [mem |-> m, objs |-> done]
    ELSE Bind(copyValue(m, Head(objs)), LAMBDA c :
           copyElements(c.mem, Tail(objs), Append(done, c.obj)))

\* The TomlValue objects a block holds.
Elements(block) ==
    IF block.type = "Array" THEN block.a
    ELSE IF block.type = "Object"
    THEN Bind(SortedKeys(DOMAIN block.o), LAMBDA ks : [i \in 1..Len(ks) |-> block.o[ks[i]]])
    ELSE <<>>

RECURSIVE destroyValue(_, _), destroyElements(_, _)
\* destroyValue(): delete m_value.<member>, which destroys the elements of a
\* vector or of a map first.  The storage after it.
destroyValue(m, obj) ==
    IF obj.m_type \notin PointerTypes THEN m
    ELSE IF obj.m_value.ptr = 0 THEN m
    ELSE IF m[obj.m_value.ptr] = Freed THEN m
    ELSE [destroyElements(m, Elements(m[obj.m_value.ptr])) EXCEPT ![obj.m_value.ptr] = Freed]

destroyElements(m, objs) ==
    IF objs = <<>> THEN m
    ELSE destroyElements(destroyValue(m, Head(objs)), Tail(objs))

\* The object after destroyValue(): the pointer is nullptr.
Destroyed(obj) ==
    IF obj.m_type \in PointerTypes THEN [obj EXCEPT !.m_value = Pointer(0)] ELSE obj

RECURSIVE valueOf(_, _)
\* The value an object stands for: what its pointers lead to.
valueOf(m, obj) ==
    IF obj.m_type \notin PointerTypes THEN obj.m_value
    ELSE IF obj.m_value.ptr = 0 THEN [type |-> "null"]
    ELSE IF m[obj.m_value.ptr].type = "Array"
    THEN Array([i \in DOMAIN m[obj.m_value.ptr].a |-> valueOf(m, m[obj.m_value.ptr].a[i])])
    ELSE IF m[obj.m_value.ptr].type = "Object"
    THEN Object([k \in DOMAIN m[obj.m_value.ptr].o |-> valueOf(m, m[obj.m_value.ptr].o[k])])
    ELSE m[obj.m_value.ptr]

(***************************************************************************)
(* A TomlValue& the program holds is a place: one of the program's objects  *)
(* and the steps from it, each the key or the index given to operator[].    *)
(***************************************************************************)
Place(obj, path) == [obj |-> obj, path |-> path]

RECURSIVE Inside(_, _, _)
\* The reference still refers to an object.
Inside(m, obj, path) ==
    IF path = <<>> THEN TRUE
    ELSE IF obj.m_type \notin {"Array", "Object"} THEN FALSE
    ELSE IF obj.m_value.ptr = 0 THEN FALSE
    ELSE IF m[obj.m_value.ptr].type # obj.m_type THEN FALSE
    ELSE IF Head(path).kind = "key"
    THEN /\ obj.m_type = "Object"
         /\ Head(path).key \in DOMAIN m[obj.m_value.ptr].o
         /\ Inside(m, m[obj.m_value.ptr].o[Head(path).key], Tail(path))
    ELSE /\ obj.m_type = "Array"
         /\ Head(path).idx \in DOMAIN m[obj.m_value.ptr].a
         /\ Inside(m, m[obj.m_value.ptr].a[Head(path).idx], Tail(path))

RECURSIVE Member(_, _, _)
Member(m, obj, path) ==
    IF path = <<>> THEN obj
    ELSE IF Head(path).kind = "key"
    THEN Member(m, m[obj.m_value.ptr].o[Head(path).key], Tail(path))
    ELSE Member(m, m[obj.m_value.ptr].a[Head(path).idx], Tail(path))

Refers(st, place) ==
    /\ place.obj \in 1..Len(st.objs)
    /\ Inside(st.mem, st.objs[place.obj], place.path)

objectAt(st, place) == Member(st.mem, st.objs[place.obj], place.path)

\* One place lies in the other, or is the other.
Overlap(p, q) ==
    /\ p.obj = q.obj
    /\ \/ Len(p.path) <= Len(q.path) /\ SubSeq(q.path, 1, Len(p.path)) = p.path
       \/ Len(q.path) <= Len(p.path) /\ SubSeq(p.path, 1, Len(q.path)) = q.path

\* *place = obj, as the bytes of the object: the storage and the program's
\* objects after it.
written(m, objs, place, obj) ==
    IF place.path = <<>>
    THEN [mem |-> m, objs |-> [objs EXCEPT ![place.obj] = obj]]
    ELSE Bind(Member(m, objs[place.obj], SubSeq(place.path, 1, Len(place.path) - 1)).m_value.ptr,
              LAMBDA a :
         Bind(place.path[Len(place.path)], LAMBDA step :
           [mem |-> [m EXCEPT ![a] = IF step.kind = "key"
                                       THEN Object(MapPut(@.o, step.key, obj))
                                       ELSE Array([@.a EXCEPT ![step.idx] = obj])],
            objs |-> objs]))

Called(name, self, other) == [name |-> name, self |-> self, other |-> other]

Finished(st, w, op) ==
    [st EXCEPT !.mem = w.mem, !.objs = w.objs, !.ops = @ + 1, !.exc = "", !.op = op]

\* An operation that has undefined behaviour: what the program does from
\* there on is not determined, and the run ends.
Undefined(st, op) == [st EXCEPT !.fault = "ub", !.ops = @ + 1, !.exc = "", !.op = op]

Threw(st, what, op) == [st EXCEPT !.ops = @ + 1, !.exc = what, !.op = op]

\* self = other, for the objects at two places: nothing when they are one
\* object; else destroyValue(), then the tag and the copy of the payload of
\* other.  When one lies in the other, other is read after its storage was
\* deleted, or holds self with the new tag and the old union.
assigned(st, self, other, op) ==
    IF self = other THEN Finished(st, st, op)
    ELSE IF Overlap(self, other) THEN Undefined(st, op)
    ELSE Bind(destroyValue(st.mem, objectAt(st, self)), LAMBDA m :
         Bind(copyValue(m, objectAt(st, other)), LAMBDA c :
           Finished(st, written(c.mem, st.objs, self, c.obj), op)))

\* TomlValue v(value);
constructValue(st, v) ==
    Bind(newValue(st.mem, v), LAMBDA n :
      Finished(st, [mem |-> n.mem, objs |-> Append(st.objs, n.obj)],
               Called("construct", Place(Len(st.objs) + 1, <<>>), Place(0, <<>>))))

\* TomlValue v(other);
copyConstructValue(st, other) ==
    Bind(copyValue(st.mem, objectAt(st, other)), LAMBDA c :
      Finished(st, [mem |-> c.mem, objs |-> Append(st.objs, c.obj)],
               Called("copy", Place(Len(st.objs) + 1, <<>>), other)))

\* self = other;
copyAssignValue(st, self, other) == assigned(st, self, other, Called("assign", self, other))

\* The object becomes an empty container of the type, unless it is one.
become(st, self, type, empty) ==
    IF objectAt(st, self).m_type = type THEN st
    ELSE Bind(allocate(destroyValue(st.mem, objectAt(st, self)), empty), LAMBDA n :
         Bind(written(n.mem, st.objs, self, [m_type |-> type, m_value |-> Pointer(n.ptr)]),
              LAMBDA w : [st EXCEPT !.mem = w.mem, !.objs = w.objs]))

\* std::map::operator[]: a key that is missing is bound to TomlValue().
slot(st, self, key) ==
    IF key \in DOMAIN st.mem[objectAt(st, self).m_value.ptr].o THEN st
    ELSE Bind(newValue(st.mem, DefaultValue), LAMBDA n :
         Bind(written(n.mem, st.objs, Place(self.obj, Append(self.path, KeyStep(key))), n.obj),
              LAMBDA w : [st EXCEPT !.mem = w.mem, !.objs = w.objs]))

\* self.insert(key, value);
insertValue(st, self, key, value) ==
    Bind(become(st, self, "Object", DefaultValue), LAMBDA st1 :
      IF ~Refers(st1, value) THEN Undefined(st, Called("insert", self, value))
      ELSE assigned(slot(st1, self, key), Place(self.obj, Append(self.path, KeyStep(key))),
                    value, Called("insert", self, value)))

\* self.push_back(value);
pushBackValue(st, self, value) ==
    Bind(become(st, self, "Array", Array(<<>>)), LAMBDA st1 :
      IF ~Refers(st1, value) THEN Undefined(st, Called("push_back", self, value))
      ELSE Bind(copyValue(st1.mem, objectAt(st1, value)), LAMBDA c :
             Finished(st1, [mem |-> [c.mem EXCEPT ![objectAt(st1, self).m_value.ptr] =
                                        Array(Append(@.a, c.obj))],
                            objs |-> st1.objs],
                      Called("push_back", self, value))))

\* self[key]; the operator of a non-const object.
subscriptValue(st, self, key) ==
    IF objectAt(st, self).m_type # "Object"
    THEN Threw(st, "not a object", Called("subscript", self, self))
    ELSE Finished(st, slot(st, self, key), Called("subscript", self, self))

\* self = {a, b}; for the objects at places.  The list holds copies of them,
\* made before destroyValue(); the new vector copies the list, and the list
\* is destroyed when the assignment is over.
listAssignValue(st, self, init) ==
    Bind(copyElements(st.mem, [i \in DOMAIN init |-> objectAt(st, init[i])], <<>>),
         LAMBDA list :
    Bind(destroyValue(list.mem, objectAt(st, self)), LAMBDA m :
    Bind(copyElements(m, list.objs, <<>>), LAMBDA c :
    Bind(allocate(c.mem, Array(c.objs)), LAMBDA n :
      Finished(st, written(destroyElements(n.mem, list.objs), st.objs, self,
                           [m_type |-> "Array", m_value |-> Pointer(n.ptr)]),
               Called("assign_list", self, self))))))

\* self[key]; for an integral key: array.resize(key + 1) appends TomlValue()
\* objects when the array is shorter.
subscriptIndexValue(st, self, key) ==
    IF objectAt(st, self).m_type # "Array"
    THEN Threw(st, "not a array", Called("subscript", self, self))
    ELSE IF key < 0 THEN Threw(st, "Negative Array index", Called("subscript", self, self))
    ELSE Bind(objectAt(st, self).m_value.ptr, LAMBDA a :
         IF key < Len(st.mem[a].a) THEN Finished(st, st, Called("subscript", self, self))
         ELSE Bind(newElements(st.mem, [i \in 1..(key + 1 - Len(st.mem[a].a)) |-> DefaultValue],
                               <<>>), LAMBDA n :
                Finished(st, [mem |-> [n.mem EXCEPT ![a] = Array(@.a \o n.objs)],
                              objs |-> st.objs],
                         Called("subscript", self, self))))

\* The values the program constructs objects from.
StoreValues ==
    { Integer(1), String("s"), Array(<<String("s")>>),
      Object(MapPut(NoEntries, "k", Array(<<Integer(1)>>))),
      Object(MapPut(NoEntries, "k", Object(MapPut(NoEntries, "k", String("s"))))) }

StoreSteps == {KeyStep("k"), IndexStep(1)}

StorePaths ==
    UNION { [1..n -> StoreSteps] : n \in 0..MaxDepth }

\* The references the program can hold.
Places ==
    { p \in { Place(i, path) : i \in 1..Len(store.objs), path \in StorePaths } :
         Refers(store, p) }

Copying == store.fault = "" /\ store.ops < MaxCalls

ConstructAt ==
    /\ Copying /\ Len(store.objs) < MaxValues
    /\ \E v \in StoreValues : store' = constructValue(store, v)
    /\ UNCHANGED <<parseVars, dateVars, escapeVars, objectVars>>

Clone ==
    /\ Copying /\ Len(store.objs) < MaxValues
    /\ \E other \in Places : store' = copyConstructValue(store, other)
    /\ UNCHANGED <<parseVars, dateVars, escapeVars, objectVars>>

Assign ==
    /\ Copying
    /\ \E self \in Places, other \in Places : store' = copyAssignValue(store, self, other)
    /\ UNCHANGED <<parseVars, dateVars, escapeVars, objectVars>>

InsertAt ==
    /\ Copying
    /\ \E self \in Places, value \in Places, key \in ObjectKeys :
          store' = insertValue(store, self, key, value)
    /\ UNCHANGED <<parseVars, dateVars, escapeVars, objectVars>>

PushBackAt ==
    /\ Copying
    /\ \E self \in Places, value \in Places : store' = pushBackValue(store, self, value)
    /\ UNCHANGED <<parseVars, dateVars, escapeVars, objectVars>>

SubscriptAt ==
    /\ Copying
    /\ \E self \in Places, key \in ObjectKeys : store' = subscriptValue(store, self, key)
    /\ UNCHANGED <<parseVars, dateVars, escapeVars, objectVars>>

\* The lists the program writes down: of one object, and of one object twice.
PlaceLists == { <<p>> : p \in Places } \cup { <<p, p>> : p \in Places }

AssignListAt ==
    /\ Copying
    /\ \E self \in Places, init \in PlaceLists : store' = listAssignValue(store, self, init)
    /\ UNCHANGED <<parseVars, dateVars, escapeVars, objectVars>>

SubscriptIndexAt ==
    /\ Copying
    /\ \E self \in Places, key \in ArrayIndices :
          store' = subscriptIndexValue(store, self, key)
    /\ UNCHANGED <<parseVars, dateVars, escapeVars, objectVars>>

CopyNext ==
    \/ ConstructAt \/ Clone \/ Assign \/ InsertAt \/ PushBackAt \/ SubscriptAt
    \/ AssignListAt \/ SubscriptIndexAt

CopySpec == Init /\ [][CopyNext]_vars

(***************************************************************************)
(* The inline run: parse on a text that binds t to an inline table, what    *)
(* stands between the braces being a sequence of key/values, commas,        *)
(* spaces and line feeds.                                                   *)
(***************************************************************************)
MaxTokens == 4

\* Key/values with distinct keys: two plain ones, one whose value is an
\* array with a line feed in it, one whose value is a multi-line string.
PlainPairs == {"k = 1", "j = 2"}

ArrayPair == "a = [1,\n2]"

StringPair == "s = \"\"\"x\ny\"\"\""

Pairs == PlainPairs \cup {ArrayPair, StringPair}

InlineTokens == Pairs \cup {",", " ", "\n"}

RECURSIVE InlineBody(_)
InlineBody(tokens) == IF tokens = <<>> THEN "" ELSE Head(tokens) \o InlineBody(Tail(tokens))

InlineText(tokens) == "t = {" \o InlineBody(tokens) \o "}\n"

InlineForms ==
    { [tokens |-> tokens, text |-> InlineText(tokens)] :
         tokens \in UNION { [1..n -> InlineTokens] : n \in 0..MaxTokens } }

\* parse on a text with one inline table.
ParseInline ==
    /\ data = "" /\ status = "ok" /\ sections = <<>> /\ ~out.done
    /\ \E form \in InlineForms :
         LET kv == readRoot(form.text)
             sec == IF kv.st = "ok" THEN Section(FALSE, <<>>, kv.keyValues) ELSE NoSection
             r == parse(form.text)
         IN  /\ data' = form.text
             /\ last' = sec
             /\ sections' = IF r.st = "ok" THEN <<sec>> ELSE sections
             /\ Settle(r)
    /\ UNCHANGED <<out, back>>
    /\ UNCHANGED <<dateVars, escapeVars, objectVars, storeVars>>

InlineNext == ParseInline

InlineSpec == Init /\ [][InlineNext]_vars

(***************************************************************************)
(* The header run: parse on a text that is one header line, closed or not,  *)
(* with or without a key/value line after it.                               *)
(***************************************************************************)
HeaderOpeners == {"[", "[["}

HeaderPaths == {"a", "a.b", "a . b"}

HeaderPads == {"", " ", "\t"}

\* What stands where the closing bracket or brackets belong.
HeaderClosers == {"]", "]]", "", "b", "=", "#", "]b", "b]"}

\* A letter directly after the path would be part of its last key.
Apart(pad, closer) == pad # "" \/ closer \notin {"b", "b]"}

HeaderTails == {"\n", "\nx = 1\n"}

HeaderEnds == { e \in HeaderPads \X HeaderClosers : Apart(e[1], e[2]) }

HeaderForms ==
    { [opener |-> opener, closer |-> e[2],
       text |-> opener \o path \o e[1] \o e[2] \o tail] :
         opener \in HeaderOpeners, path \in HeaderPaths,
         e \in HeaderEnds, tail \in HeaderTails }

\* parse on a text with one header line.
ParseHeader ==
    /\ data = "" /\ status = "ok" /\ sections = <<>> /\ ~out.done
    /\ \E form \in HeaderForms :
         LET rd == readSection(form.text, 0)
             sec == IF rd.st = "ok" THEN Section(rd.isArray, rd.headers, rd.keyValues)
                    ELSE NoSection
             r == parse(form.text)
         IN  /\ data' = form.text
             /\ last' = sec
             /\ sections' = IF r.st = "ok" THEN <<sec>> ELSE sections
             /\ Settle(r)
    /\ UNCHANGED <<out, back>>
    /\ UNCHANGED <<dateVars, escapeVars, objectVars, storeVars>>

HeaderNext == ParseHeader

HeaderSpec == Init /\ [][HeaderNext]_vars

(***************************************************************************)
(* What the text said: paths named by the sections read                     *)
(***************************************************************************)
IsPrefix(p, q) == Len(p) <= Len(q) /\ SubSeq(q, 1, Len(p)) = p

StrictPrefix(p, q) == Len(p) < Len(q) /\ IsPrefix(p, q)

\* The sections stored before the latest one was read.
Before ==
    IF last.read /\ status = "ok" /\ sections # <<>>
    THEN SubSeq(sections, 1, Len(sections) - 1)
    ELSE sections

\* The full paths the key/value lines of a section bind, in line order.
BoundPaths(sec) == [i \in 1..Len(sec.keyValues) |-> sec.headers \o sec.keyValues[i].keys]

\* The latest step read a header, [p] or [[p]].
LastIsHeader == last.read /\ last.headers # <<>>

LastIsTableHeader == LastIsHeader /\ ~last.isArray

LastIsArrayHeader == LastIsHeader /\ last.isArray

\* parse refused the text with a parse error and returned no document.
Refused == status = "error" /\ exc = "TomlParseException" /\ root = NoDocument

\* No earlier [[q]] with q a strict prefix of p: no part of p lies in an
\* element of an array of tables, where a new element starts afresh.
NoArrayAbove(p) ==
    \A i \in 1..Len(Before) : ~(Before[i].isArray /\ StrictPrefix(Before[i].headers, p))

\* Some earlier key/value line, and the path it binds, satisfy P.
EarlierBinding(P(_, _)) ==
    \E i \in 1..Len(Before) : \E j \in 1..Len(Before[i].keyValues) :
        P(BoundPaths(Before[i])[j], Before[i].keyValues[j].val)

(***************************************************************************)
(* Round trip and serializer                                                *)
(***************************************************************************)
\* C1: round trip.  For every document d that parse returns,
\* parse(stringify(d, TOML)) succeeds and yields a document equal to d: the
\* same keys at every table, the same variant and value at every leaf, the
\* same array lengths and element order.
C1_RoundTrip == back.done => (back.res.st = "ok" /\ back.res.root = root)

\* A document with a float was written and read back as another float.
C1_Diverges ==
    /\ back.done /\ back.res.st = "ok" /\ back.res.root # root
    /\ data = "f = 1000000.0000000001\n"
    /\ out.text = "f = 1e6\n"

\* C2: serializer idempotence.  For every document d that parse returns,
\* stringify(parse(stringify(d, TOML)), TOML) is byte for byte
\* stringify(d, TOML).
C2_Idempotent ==
    back.done => (back.res.st = "ok" /\ stringify(back.res.root) = out.text)

\* What stringify wrote for the largest double is refused by parse.
C2_Diverges ==
    /\ back.done /\ back.res.st = "error" /\ back.res.msg = "Invalid float"
    /\ data = "f = 1.7976931348623157e308\n"
    /\ out.text = "f = 1.797693134862316e308\n"

(***************************************************************************)
(* Key/value lines                                                          *)
(***************************************************************************)
\* Two key/value lines of the section read last bind the same path, or one
\* binds a strict prefix of the path the other binds.
LastBindsTwice ==
    /\ last.read
    /\ \E i, j \in 1..Len(last.keyValues) :
          i < j /\ ( \/ IsPrefix(last.keyValues[i].keys, last.keyValues[j].keys)
                     \/ IsPrefix(last.keyValues[j].keys, last.keyValues[i].keys) )

\* C3: no path is assigned twice by key/value lines.  Whenever two key/value
\* lines of one scope (the root, or the body of one header) bind the same
\* dotted path, or one binds a strict prefix of the path the other binds,
\* parse fails with a parse error and returns no document.
C3_NoPathTwice == LastBindsTwice => Refused

\* a.y = 2 after a = { x = 1 } in one scope is accepted.
C3_Diverges ==
    /\ LastBindsTwice /\ status = "ok"
    /\ data = "a = { x = 1 }\na.y = 2\n"

\* C4: the keys inside one inline table are checked against each other.
\* { a.b = 1, a.c = 2 } is accepted and yields {a: {b: 1, c: 2}}; an inline
\* table that binds one key twice, or extends a key it has bound to a nested
\* inline table, makes parse fail with a parse error.
C4_InlineLedger ==
    /\ data = "t = { a.b = 1, a.c = 2 }\n" =>
          /\ status = "ok"
          /\ root = Object("t" :> Object("a" :> Object("b" :> Integer(1) @@ "c" :> Integer(2))))
    /\ data \in { "t = { a = 1, a = 2 }\n",
                  "t = { a = { b = 1 }, a.c = 2 }\n",
                  "a = { b = {c=1}, b.d = 2 }\n" } => Refused

\* An inline table that binds a twice is accepted; the second value stays.
C4_Diverges ==
    /\ data = "t = { a = 1, a = 2 }\n" /\ status = "ok"
    /\ root = Object("t" :> Object("a" :> Integer(2)))

(***************************************************************************)
(* Headers                                                                  *)
(***************************************************************************)
\* An earlier section has the header [p].
EarlierTableHeader(p) ==
    \E i \in 1..Len(Before) : ~Before[i].isArray /\ Before[i].headers = p

\* C5: defining a table twice is an error.  In a document where the same
\* [p] header stands twice, the second one makes parse fail with a parse
\* error, whether or not the bodies share a key or are empty.
C5_ExplicitOnce ==
    (LastIsTableHeader /\ EarlierTableHeader(last.headers) /\ NoArrayAbove(last.headers))
        => Refused

\* [a] twice, both bodies empty, is accepted.
C5_Diverges ==
    /\ LastIsTableHeader /\ EarlierTableHeader(last.headers) /\ status = "ok"
    /\ data = "[a]\n[a]\n"

\* An earlier key/value line has a dotted key of which p is a proper part:
\* p is the line's scope followed by some, not all, of the line's keys.
EarlierDottedThrough(p) ==
    \E i \in 1..Len(Before) : \E j \in 1..Len(Before[i].keyValues) :
        /\ StrictPrefix(p, BoundPaths(Before[i])[j])
        /\ StrictPrefix(Before[i].headers, p)

\* C6: a table made as the prefix of a dotted key cannot be defined by a
\* header later.  After a.b = 1 at the root a later [a], and after b.c = 1
\* inside [a] a later [a.b], makes parse fail with a parse error.
C6_DottedThenHeader ==
    (LastIsTableHeader /\ EarlierDottedThrough(last.headers) /\ NoArrayAbove(last.headers))
        => Refused

\* [a] after a.b = 1 is accepted.
C6_Diverges ==
    /\ LastIsTableHeader /\ EarlierDottedThrough(last.headers) /\ status = "ok"
    /\ data = "a.b = 1\n[a]\n"

IsInlineTable(v) == v.type = "Object"

\* An earlier key/value line binds an inline table to p or to a prefix of p.
InlineTableOnPath(path, v) == IsInlineTable(v) /\ IsPrefix(path, last.headers)

\* Two key/value lines of the section read last: the first binds an inline
\* table, the second has a dotted key through it.
LastExtendsInline ==
    /\ last.read
    /\ \E i, j \in 1..Len(last.keyValues) :
          /\ i < j
          /\ IsInlineTable(last.keyValues[i].val)
          /\ StrictPrefix(last.keyValues[i].keys, last.keyValues[j].keys)

\* C7: inline tables are closed.  After a key/value line binds an inline
\* table to a, a later key/value line with a dotted key through a and a
\* later header through a ([a.y], [a], [[a.y]]) make parse fail with a parse
\* error.
C7_InlineClosed ==
    /\ LastExtendsInline => Refused
    /\ (LastIsHeader /\ EarlierBinding(InlineTableOnPath)) => Refused

\* [a.y] after a = { x = 1 } is accepted and a holds a key not written
\* between its braces.
C7_Diverges ==
    /\ LastIsHeader /\ EarlierBinding(InlineTableOnPath) /\ status = "ok"
    /\ data = "a = { x = 1 }\n[a.y]\n"
    /\ DOMAIN root.o["a"].o = {"x", "y"}

\* How a section names the path p first: "array" by the header [[p]],
\* "table" by the header [p], by a deeper header or by a dotted key through
\* p, "value" by a key/value line that binds p or a prefix of p, "none" when
\* it does not name p.
MentionKind(sec, p) ==
    IF sec.headers # <<>> /\ sec.headers = p
    THEN IF sec.isArray THEN "array" ELSE "table"
    ELSE IF StrictPrefix(p, sec.headers) THEN "table"
    ELSE LET touching == {j \in 1..Len(sec.keyValues) :
                            \/ IsPrefix(BoundPaths(sec)[j], p)
                            \/ IsPrefix(p, BoundPaths(sec)[j])}
         IN  IF touching = {} THEN "none"
             ELSE LET j == CHOOSE x \in touching : \A y \in touching : x <= y
                  IN  IF IsPrefix(BoundPaths(sec)[j], p) THEN "value" ELSE "table"

\* How the text before the latest section made p.
CreatedAs(p) ==
    LET naming == {i \in 1..Len(Before) : MentionKind(Before[i], p) # "none"}
    IN  IF naming = {} THEN "none"
        ELSE MentionKind(Before[CHOOSE x \in naming : \A y \in naming : x <= y], p)

RECURSIVE ValueAt(_, _)
\* The value at a path of keys; NoDocument when the path leaves the tables.
ValueAt(v, p) ==
    IF p = <<>> THEN v
    ELSE IF isObject(v) /\ HasKey(v, Head(p)) THEN ValueAt(v.o[Head(p)], Tail(p))
    ELSE NoDocument

\* The number of [[p]] sections stored.
ArrayHeaders(p) ==
    Cardinality({i \in 1..Len(sections) : sections[i].isArray /\ sections[i].headers = p})

\* The array at p has one element per [[p]] section, the last of them the
\* table of the latest section's key/values.
Appended(p) ==
    LET arr == ValueAt(root, p)
    IN  /\ isArray(arr)
        /\ Len(arr.a) = ArrayHeaders(p)
        /\ Back(arr.a) = SET_VALUE_TO_NODE(DefaultValue, <<>>, last.keyValues, 1, 0).tree

\* C8: an array of tables and a table of one path exclude each other.  After
\* [[p]] a later [p] fails with a parse error; after [p], or after p was made
\* a table by a deeper header or a dotted key, a later [[p]] fails with a
\* parse error; a further [[p]] after [[p]] is accepted (shown for a header
\* with no lines under it), and whenever it is accepted it appends.
C8_ArrayVsTable ==
    (LastIsHeader /\ NoArrayAbove(last.headers)) =>
        /\ (~last.isArray /\ CreatedAs(last.headers) = "array") => Refused
        /\ (last.isArray /\ CreatedAs(last.headers) = "table") => Refused
        /\ (last.isArray /\ CreatedAs(last.headers) = "array" /\ last.keyValues = <<>>)
              => status = "ok"
        /\ (last.isArray /\ CreatedAs(last.headers) = "array" /\ status = "ok")
              => Appended(last.headers)

\* [a] was read after [[a]] and refused.
C8_Reached ==
    /\ LastIsTableHeader /\ CreatedAs(last.headers) = "array" /\ NoArrayAbove(last.headers)
    /\ Refused /\ errMsg = "node is not a array"
    /\ data = "[[a]]\nx = 1\n[a]\n"

\* An earlier key/value line binds a scalar or an array to p or to a prefix of p.
PlainValueOnPath(path, v) == ~IsInlineTable(v) /\ IsPrefix(path, last.headers)

\* C9: a path bound to a scalar or to a written array by a key/value line is
\* never named or traversed by a later header.  Every later [a], [a.b],
\* [[a]], [[a.b]] makes parse fail with a parse error, also with an empty
\* body, and the written array gains no element.
C9_ValueThenHeader == (LastIsHeader /\ EarlierBinding(PlainValueOnPath)) => Refused

\* [[a]] after a = [1, 2] is accepted and the array has a third element.
C9_Diverges ==
    /\ LastIsArrayHeader /\ EarlierBinding(PlainValueOnPath) /\ status = "ok"
    /\ data = "a = [1, 2]\n[[a]]\n"
    /\ Len(root.o["a"].a) = 3

\* C10: parse terminates on every text.  It returns a document or raises a
\* parse error after finitely many steps, also for a carriage return without
\* line feed after '[' or between array elements, and for an unterminated
\* string, array or inline table.
C10_Terminates == status \in {"ok", "error"} /\ (back.done => back.res.st \in {"ok", "error"})

\* The loop of skipAll stands on a carriage return for ever.
C10_Diverges == status = "hang" /\ data = "a = [1,\r2]\n" /\ errPos = 7

(***************************************************************************)
(* Dates                                                                    *)
(***************************************************************************)
\* sign·(HH·60+MM)
SignedMinutes(sign, hh, mm) == IF sign = "-" THEN 0 - (hh * 60 + mm) ELSE hh * 60 + mm

\* The text the offset is to be printed as: Z for a count of zero.
OffsetPrinted(sign, hh, mm) ==
    "2000-01-01T00:00:00" \o
    (IF SignedMinutes(sign, hh, mm) = 0 THEN "Z" ELSE OffsetSuffix(sign, hh, mm))

\* C11: every offset ±HH:MM with HH in 0..23 and MM in 0..59 is accepted in an
\* offset date-time, is stored and read back as the signed minute count
\* sign·(HH·60+MM) over the whole range -1439..1439, and toString emits the
\* same ±HH:MM, or Z when the count is zero.
C11_OffsetKept ==
    \A sign \in {"+", "-"}, hh \in 0..23, mm \in 0..59 :
        (Parsed /\ made.text = OffsetText(sign, hh, mm)) =>
            /\ made.res.st = "ok"
            /\ made.res.date.m_type = "OFFSET_DATE_TIME"
            /\ getTzOffset(made.res.date) = optional(SignedMinutes(sign, hh, mm))
            /\ shown.done => shown.text = OffsetPrinted(sign, hh, mm)

\* +17:04 is 1024 minutes, which the 11-bit field reads back as -1024.
C11_Wraps ==
    /\ made.done /\ made.text = OffsetText("+", 17, 4)
    /\ made.res.st = "ok"
    /\ getTzOffset(made.res.date) = optional(0 - 1024)
    /\ shown.done /\ shown.text = "2000-01-01T00:00:00-17:04"

FourVariants == {"OFFSET_DATE_TIME", "LOCAL_DATE_TIME", "LOCAL_DATE", "LOCAL_TIME"}

\* C12: constructing a TomlDate from a string that leaves the date/time
\* grammar raises TomlException: it produces no date and does not terminate
\* the process; every date that is constructed has one of the four variants.
C12_DeviationRaises ==
    Parsed =>
        /\ made.res.st # "terminate"
        /\ made.text \in DeviantTexts =>
              (made.res.st = "error" /\ made.res.exc = "TomlException")
        /\ made.res.st = "ok" => made.res.date.m_type \in FourVariants

\* The exception of parseSubSecond leaves the noexcept parseLocalTime.
C12_Terminates ==
    /\ made.done /\ made.text = "12:00:00."
    /\ made.res.st = "terminate"
    /\ made.res.msg = "'.' must be followed by digits in string: 12:00:00."

\* The leap years of the claim.
LeapYear(y) == y % 4 = 0 /\ (y % 100 # 0 \/ y % 400 = 0)

\* The number of days of a month in a year.
DaysOf(y, mo) ==
    IF mo = 2 THEN (IF LeapYear(y) THEN 29 ELSE 28)
    ELSE IF mo \in {4, 6, 9, 11} THEN 30 ELSE 31

ValidDate(y, mo, d) == 1 <= mo /\ mo <= 12 /\ 1 <= d /\ d <= DaysOf(y, mo)

\* The value of key d is the date y-mo-d.
IsDateOf(v, y, mo, d) ==
    /\ v.type = "Date"
    /\ getYear(v.date) = optional(y)
    /\ getMonth(v.date) = optional(mo)
    /\ getDay(v.date) = optional(d)

\* The year, month and day written in a text of DateDocs, "d = YYYY-MM-DD...".
YearOf(text) == DigitsValue(SubSeq(text, 5, 8), 10, 0)

MonthOf(text) == DigitsValue(SubSeq(text, 10, 11), 10, 0)

DayOf(text) == DigitsValue(SubSeq(text, 13, 14), 10, 0)

\* C13: a date, alone or followed by a time and an offset, is accepted iff
\* 1 <= month <= 12 and 1 <= day <= the number of days of that month in that
\* year, so YYYY-02-29 is accepted iff YYYY is a leap year; any other date
\* makes parse fail with a parse error, and is never read as a number.
C13_LeapYear ==
    data \in DateDocs =>
        IF ValidDate(YearOf(data), MonthOf(data), DayOf(data))
        THEN status = "ok" /\ IsDateOf(root.o["d"], YearOf(data), MonthOf(data), DayOf(data))
        ELSE status = "error" /\ exc = "TomlParseException"

\* 1900 is no leap year: 1900-02-29 with a time and an offset is refused by
\* the date constructor and parse reports it as a parse error.
C13_Reached ==
    /\ data = DateDoc(1900, 2, 29, "T00:00:00Z")
    /\ ~ValidDate(1900, 2, 29)
    /\ status = "error" /\ exc = "TomlParseException"
    /\ errMsg = "String does not match any valid TOML date/time format: 1900-02-29T00:00:00Z"

(***************************************************************************)
(* Numbers                                                                  *)
(***************************************************************************)
\* Every underscore of the literal stands between two digits.
BetweenDigits(literal) ==
    \A i \in 0..(Len(literal) - 1) :
        Ch(literal, i) = "_" =>
            /\ i > 0 /\ IS_DIGIT(Ch(literal, i - 1))
            /\ i + 1 < Len(literal) /\ IS_DIGIT(Ch(literal, i + 1))

RECURSIVE WithoutUnderscores(_)
WithoutUnderscores(literal) ==
    IF literal = "" THEN ""
    ELSE (IF Ch(literal, 0) = "_" THEN "" ELSE SubSeq(literal, 1, 1))
         \o WithoutUnderscores(SubSeq(literal, 2, Len(literal)))

\* C14: a numeric literal whose underscores all stand between two digits is
\* accepted as the literal without them; a literal with a leading, trailing
\* or doubled underscore, or with one next to the sign, the base prefix, the
\* decimal point, the exponent marker or the exponent sign, makes parse fail
\* with a parse error.
C14_Underscores ==
    \A l \in UnderscoreLiterals :
        data = ValueDoc(l) =>
            IF BetweenDigits(l)
            THEN status = "ok" /\ root = parse(ValueDoc(WithoutUnderscores(l))).root
            ELSE status = "error" /\ exc = "TomlParseException"

\* -_1 is accepted and is the integer -1.
C14_Diverges ==
    /\ data = ValueDoc("-_1") /\ ~BetweenDigits("-_1")
    /\ status = "ok" /\ root.o["k"] = Integer(0 - 1)
    /\ out.done /\ out.text = "k = -1\n"

\* C15: an integer literal in base 2, 8, 10 or 16 is accepted iff its value
\* lies in [-2^63, 2^63 - 1], and the value stored and printed is then that
\* value; a literal outside the range makes parse fail with a parse error and
\* is never wrapped.
C15_IntegerRange ==
    \A row \in RangeRows :
        data = ValueDoc(row.literal) =>
            IF row.inRange
            THEN /\ status = "ok" /\ root.o["k"] = Integer64(row.dec)
                 /\ out.done => out.text = "k = " \o row.dec \o "\n"
            ELSE status = "error" /\ exc = "TomlParseException" /\ errMsg = "Invalid integer"

\* 2^63 written in base 16 is refused.
C15_Reached ==
    /\ data = ValueDoc("0x8000000000000000")
    /\ status = "error" /\ exc = "TomlParseException" /\ errMsg = "Invalid integer"

(***************************************************************************)
(* Strings                                                                  *)
(***************************************************************************)
\* The string a multi-line string "a" closed by a run of n quotes denotes.
ClosedBy(row) == String("a" \o Run(row.q, row.run - 3))

\* C16: in a multi-line basic or literal string a run of exactly three quotes
\* ends the string; a run of four or five quotes is one or two quotes of the
\* string followed by the terminator, whatever follows the run; a run of six
\* or more quotes makes parse fail with a parse error.
C16_ClosingQuotes ==
    \A row \in MultiLineRows :
        data = row.text =>
            IF row.run <= 5
            THEN /\ status = "ok"
                 /\ (IF row.inArray THEN root.o["k"].a[1] ELSE root.o["k"]) = ClosedBy(row)
            ELSE status = "error" /\ exc = "TomlParseException"

\* A run of four quotes followed by ,"y" is refused.
C16_Diverges ==
    /\ data = "k = [\"\"\"a\"\"\"\",\"y\"]\n"
    /\ status = "error" /\ errMsg = "not allow 3 \" in multi-basic string" /\ errPos = 9

\* The characters after the 'u' or 'U' of an escape text.
EscapeDigits(t) == SubSeq(t, 2, Len(t))

\* The escape has exactly 4 digits after 'u', or 8 after 'U', all hexadecimal.
ExactHex(t) ==
    /\ Len(EscapeDigits(t)) = (IF Ch(t, 0) = "u" THEN 4 ELSE 8)
    /\ \A i \in 0..(Len(EscapeDigits(t)) - 1) : isxdigit(Ch(EscapeDigits(t), i))

\* The last six digits of the escape, as a number.
LowDigits(t) ==
    DigitsValue(SubSeq(t, IF Ch(t, 0) = "u" THEN 2 ELSE 4, Len(t)), 16, 0)

\* The escape denotes a code point up to U+10FFFF outside U+D800..U+DFFF.
ScalarValue(t) ==
    /\ Ch(t, 0) = "U" => SubSeq(t, 2, 3) = "00"
    /\ LowDigits(t) <= 1114111
    /\ ~(LowDigits(t) >= 55296 /\ LowDigits(t) <= 57343)

\* The UTF-8 encoding of a code point.
UTF8(cp) ==
    IF cp < 128 THEN <<cp>>
    ELSE IF cp < 2048 THEN <<192 + (cp \div 64), 128 + (cp % 64)>>
    ELSE IF cp < 65536
    THEN <<224 + (cp \div 4096), 128 + ((cp \div 64) % 64), 128 + (cp % 64)>>
    ELSE <<240 + (cp \div 262144), 128 + ((cp \div 4096) % 64), 128 + ((cp \div 64) % 64),
           128 + (cp % 64)>>

\* C17: an escape \uXXXX or \UXXXXXXXX is accepted only if it has exactly 4,
\* or 8, hexadecimal digits that denote a code point up to U+10FFFF outside
\* U+D800..U+DFFF, and it then yields the UTF-8 encoding of that code point;
\* every other escape (a sign, a character that is no hexadecimal digit, too
\* few digits, a surrogate, a value above U+10FFFF) is a parse error.
C17_UnicodeEscapes ==
    escaped.done =>
        IF ExactHex(escaped.text) /\ ScalarValue(escaped.text)
        THEN escaped.res.st = "ok" /\ escaped.res.bytes = UTF8(LowDigits(escaped.text))
        ELSE escaped.res.st = "error" /\ escaped.res.exc = "TomlParseException"

\* \u-001 is accepted and yields the single byte 0xFF, which is no UTF-8.
C17_Diverges ==
    /\ escaped.done /\ escaped.text = "u-001"
    /\ ~ExactHex(escaped.text)
    /\ escaped.res.st = "ok"
    /\ escaped.res.bytes = <<255>>

(***************************************************************************)
(* C18.  Tag and payload.                                                   *)
(***************************************************************************)
\* An object whose union holds what its tag says: a payload of the tag's
\* kind, and for a pointer tag a pointer that is not null.
Consistent(obj) == obj.m_value # nullptr /\ obj.m_value.type = obj.m_type

\* C18: after any sequence of constructions, copies, moves, assignments,
\* insert, push_back and operator[], every object that is alive, the source
\* of a move included, has a payload that matches its tag.
C18_TagPayload == \A i \in Objects : Consistent(heap.objs[i])

\* C18: a string was constructed and then moved from: the new object owns the
\* string, and the source is tagged Object with a null pointer.
C18_Diverges ==
    /\ heap.objs = <<MovedFrom, ValueObject(String("s"))>>
    /\ heap.fault = "" /\ heap.ops = 2

(***************************************************************************)
(* C19.  Sub-tables before and after their super-table                      *)
(***************************************************************************)
\* An earlier [q] names a super-table of p.
EarlierSuperTable(p) ==
    \E i \in 1..Len(Before) :
        Before[i].headers # <<>> /\ ~Before[i].isArray /\ StrictPrefix(Before[i].headers, p)

\* An earlier [q] names a sub-table of p.
EarlierSubTable(p) ==
    \E i \in 1..Len(Before) : ~Before[i].isArray /\ StrictPrefix(p, Before[i].headers)

Front(seq) == SubSeq(seq, 1, Len(seq) - 1)

\* An earlier dotted key made a super-table of p, as a.b = 1 does for a.c.
EarlierDottedAbove(p) ==
    \E i \in 1..Len(Before) : \E j \in 1..Len(Before[i].keyValues) :
        /\ Len(Before[i].keyValues[j].keys) >= 2
        /\ StrictPrefix(Front(BoundPaths(Before[i])[j]), p)

ValueOnPath(path, v) == IsPrefix(path, last.headers)

\* The text before names q: as a header, as a prefix of one, or on the path
\* of a key/value line.
Mentioned(q) ==
    \E i \in 1..Len(Before) :
        \/ IsPrefix(q, Before[i].headers)
        \/ \E j \in 1..Len(Before[i].keyValues) : IsPrefix(q, BoundPaths(Before[i])[j])

\* The latest section is the first definition of its table: the text before
\* has no array of tables, no [p], no dotted key that made p and no value on
\* the path of p, and the lines below the header bind plain keys, each once,
\* that the text before does not name.
FirstDefinition ==
    /\ LastIsTableHeader
    /\ \A i \in 1..Len(Before) : ~Before[i].isArray
    /\ ~EarlierTableHeader(last.headers)
    /\ ~EarlierDottedThrough(last.headers)
    /\ ~EarlierBinding(ValueOnPath)
    /\ \A j \in 1..Len(last.keyValues) :
          /\ Len(last.keyValues[j].keys) = 1
          /\ ~Mentioned(last.headers \o last.keyValues[j].keys)
          /\ \A k \in 1..Len(last.keyValues) :
                k # j => last.keyValues[k].keys # last.keyValues[j].keys

RECURSIVE Keeps(_, _)
\* now has lost nothing of was: the same value, or a table with every key
\* of was, each keeping what it held.
Keeps(now, was) ==
    IF isObject(was)
    THEN /\ isObject(now)
         /\ \A k \in DOMAIN was.o : HasKey(now, k) /\ Keeps(now.o[k], was.o[k])
    ELSE now = was

\* The document holds a table at the latest header and at every header read
\* above or below it, and at the path of every key/value line read it holds
\* the value of the line.
Merged ==
    \A i \in 1..Len(sections) :
        /\ ( \/ IsPrefix(sections[i].headers, last.headers)
             \/ IsPrefix(last.headers, sections[i].headers) )
              => isObject(ValueAt(root, sections[i].headers))
        /\ \A j \in 1..Len(sections[i].keyValues) :
              Keeps(ValueAt(root, BoundPaths(sections[i])[j]), sections[i].keyValues[j].val)

\* C19: a sub-table may be defined before or after its super-table.  A [p]
\* that is the first definition of its table, read after a [q] above it,
\* after a [q] below it, or after a dotted key that made a table above it,
\* is accepted, and the document holds both definitions with no earlier key
\* lost; [a.b] x = 1 [a] y = 2 yields {a: {b: {x: 1}, y: 2}}.
C19_SubSuperTables ==
    /\ ( /\ FirstDefinition
         /\ \/ EarlierSuperTable(last.headers)
            \/ EarlierSubTable(last.headers)
            \/ EarlierDottedAbove(last.headers) )
       => (status = "ok" /\ Merged)
    /\ data = "[a.b]\nx = 1\n[a]\ny = 2\n" =>
          root = Object(MapPut(NoEntries, "a",
                     Object(MapPut(MapPut(NoEntries, "b",
                                Object(MapPut(NoEntries, "x", Integer(1)))),
                            "y", Integer(2)))))

\* C19: [a] with y = 2 was read after [a.b] with x = 1, and a holds both.
C19_Reached ==
    /\ FirstDefinition /\ EarlierSubTable(last.headers) /\ status = "ok"
    /\ data = "[a.b]\nx = 1\n[a]\ny = 2\n"
    /\ ValueAt(root, <<"a", "b", "x">>) = Integer(1)
    /\ ValueAt(root, <<"a", "y">>) = Integer(2)

(***************************************************************************)
(* C20.  Arrays of tables grow in source order                              *)
(***************************************************************************)
\* The header sections stored, in source order.
HeaderSections == SelectSeq(sections, LAMBDA sec : sec.headers # <<>>)

\* The lines of a body bind plain keys, each once.
PlainBody(keyValues) ==
    \A j \in 1..Len(keyValues) :
        /\ Len(keyValues[j].keys) = 1
        /\ \A k \in 1..Len(keyValues) : k # j => keyValues[k].keys # keyValues[j].keys

\* The table that holds exactly the key/value pairs of a plain body.
TableOf(keyValues) ==
    Object([key \in {keyValues[j].keys[1] : j \in 1..Len(keyValues)} |->
              keyValues[CHOOSE j \in 1..Len(keyValues) : keyValues[j].keys = <<key>>].val])

\* The text read so far is the root's lines, none of them on the path p,
\* followed by [[p]] sections with plain bodies and by nothing else, the
\* latest section one of them.
OnlyArrayOfTables(p) ==
    /\ LastIsArrayHeader /\ last.headers = p /\ PlainBody(last.keyValues)
    /\ \A i \in 1..Len(Before) :
          IF Before[i].headers = <<>>
          THEN \A j \in 1..Len(Before[i].keyValues) :
                  Before[i].keyValues[j].keys[1] # p[1]
          ELSE Before[i].isArray /\ Before[i].headers = p /\ PlainBody(Before[i].keyValues)

\* C20: in a document whose headers are n occurrences of [[p]], the array at
\* p has exactly n elements in source order, the i-th the table of exactly
\* the key/value pairs of the i-th body, an empty table for an empty body.
\* This holds after every [[p]] read, so each [[p]] adds one element at the
\* end and leaves the earlier ones as they were.
C20_AppendOrder ==
    (last.read /\ OnlyArrayOfTables(last.headers)) =>
        /\ status = "ok"
        /\ isArray(ValueAt(root, last.headers))
        /\ Len(ValueAt(root, last.headers).a) = Len(HeaderSections)
        /\ \A i \in 1..Len(HeaderSections) :
              ValueAt(root, last.headers).a[i] = TableOf(HeaderSections[i].keyValues)

\* C20: [[a]] with x = 1 and then [[a]] with an empty body were read: a holds
\* the table {x: 1} and then the empty table.
C20_Reached ==
    /\ last.read /\ OnlyArrayOfTables(<<"a">>) /\ status = "ok"
    /\ data = "[[a]]\nx = 1\n[[a]]\n"
    /\ ValueAt(root, <<"a">>) =
          Array(<<Object(MapPut(NoEntries, "x", Integer(1))), DefaultValue>>)

(***************************************************************************)
(* C21.  Headers below an array of tables                                   *)
(***************************************************************************)
\* The places of the [[q]] sections among the sections stored.
ArrayPlaces(q) == {i \in 1..Len(sections) : sections[i].isArray /\ sections[i].headers = q}

\* The sections stored since the latest [[q]], that one included.
SinceLatest(q) == SubSeq(sections, MaxOf(ArrayPlaces(q)), Len(sections))

\* A section is read whose header p lies one key below q, an array of tables
\* by k >= 1 earlier [[q]] headers, in a text of [[q]] sections and sections
\* below q with plain bodies; the latest element of q does not hold the key
\* of p from its own body, nor as a table when p is read as an array, nor at
\* all when p is read as a table.
ReadsBelowArray(q) ==
    /\ data' # data /\ last'.read
    /\ Len(last'.headers) = Len(q) + 1 /\ Front(last'.headers) = q
    /\ PlainBody(last'.keyValues)
    /\ ArrayPlaces(q) # {}
    /\ \A i \in 1..Len(sections) :
          /\ PlainBody(sections[i].keyValues)
          /\ \/ sections[i].isArray /\ sections[i].headers = q
             \/ Front(sections[i].headers) = q
    /\ \A j \in 1..Len(SinceLatest(q)[1].keyValues) :
          SinceLatest(q)[1].keyValues[j].keys # <<Back(last'.headers)>>
    /\ \A i \in 2..Len(SinceLatest(q)) :
          SinceLatest(q)[i].headers = last'.headers
             => (last'.isArray /\ SinceLatest(q)[i].isArray)

\* The element holds at key what the header made: the table of the body for
\* [p], and for [[p]] the array it held at key, or an empty one, with the
\* table of the body added at its end.
Below(element, key) ==
    IF ~last'.isArray THEN TableOf(last'.keyValues)
    ELSE Array((IF HasKey(element, key) THEN element.o[key].a ELSE <<>>)
               \o <<TableOf(last'.keyValues)>>)

\* The array at q after the step is the array before it with, in its last
\* element only, the key of p bound to what the header made.
StoredInLatest(q, was, now) ==
    /\ status' = "ok"
    /\ isArray(now) /\ Len(now.a) = Len(was.a) /\ Len(was.a) = Cardinality(ArrayPlaces(q))
    /\ \A i \in 1..(Len(was.a) - 1) : now.a[i] = was.a[i]
    /\ Back(now.a) = Object(MapPut(Back(was.a).o, Back(last'.headers),
                                   Below(Back(was.a), Back(last'.headers))))

\* C21: a [a.b] header that follows k >= 1 [[a]] headers stores table b and
\* its body in the k-th element of a and leaves the first k - 1 elements as
\* they were; a [[a.b]] header appends to the array b of the k-th element,
\* making that array when the element has no b.
C21_Traversal ==
    [][ReadsBelowArray(<<"a">>)
          => StoredInLatest(<<"a">>, ValueAt(root, <<"a">>), ValueAt(root', <<"a">>))]_vars

\* C21: [a.b] with c = 2 was read after two [[a]]: the second element holds
\* b, the first is as it was.
C21_Reached ==
    /\ status = "ok" /\ data = "[[a]]\nx = 1\n[[a]]\n[a.b]\nc = 2\n"
    /\ ValueAt(root, <<"a">>) =
          Array(<<Object(MapPut(NoEntries, "x", Integer(1))),
                  Object(MapPut(NoEntries, "b", Object(MapPut(NoEntries, "c", Integer(2)))))>>)

(***************************************************************************)
(* C22.  Tables and arrays of tables in TOML output                         *)
(***************************************************************************)
RECURSIVE Flatten(_)
\* The strings of a sequence, one after the other.
Flatten(texts) == IF texts = <<>> THEN "" ELSE Head(texts) \o Flatten(Tail(texts))

RECURSIVE Joined(_)
\* The strings of a sequence with ", " between them.
Joined(texts) ==
    IF texts = <<>> THEN ""
    ELSE IF Len(texts) = 1 THEN texts[1]
    ELSE texts[1] \o ", " \o Joined(Tail(texts))

\* How an entry is to be written: a table under a [header], a non-empty
\* array of tables only as [[header]] sections, anything else as a line.
EmittedAs(value) ==
    IF value.type = "Object" THEN "table"
    ELSE IF /\ value.type = "Array" /\ Len(value.a) >= 1
            /\ \A i \in 1..Len(value.a) : value.a[i].type = "Object"
         THEN "sections"
         ELSE "line"

RECURSIVE InlineForm(_)
\* A value on one line: an array as [ ... ], a table as { k = v, ... }.
InlineForm(value) ==
    IF value.type = "Array"
    THEN "[" \o Joined([i \in 1..Len(value.a) |-> InlineForm(value.a[i])]) \o "]"
    ELSE IF value.type = "Object"
    THEN LET keys == SortedKeys(DOMAIN value.o)
         IN  "{ " \o Joined([i \in 1..Len(keys) |->
                                stringifyKey(keys[i]) \o " = " \o InlineForm(value.o[keys[i]])])
                  \o " }"
    ELSE stringifyValue(value)

RECURSIVE TableForm(_, _)
\* A table: first its lines, then its tables and its arrays of tables, each
\* under the header of its full key.
TableForm(object, prefix) ==
    LET keys == SortedKeys(DOMAIN object)
        fullKey(k) == (IF prefix = "" THEN "" ELSE prefix \o ".") \o stringifyKey(k)
        line(k) == IF EmittedAs(object[k]) = "line"
                   THEN stringifyKey(k) \o " = " \o InlineForm(object[k]) \o "\n"
                   ELSE ""
        below(k) ==
            IF EmittedAs(object[k]) = "table"
            THEN "\n[" \o fullKey(k) \o "]\n" \o TableForm(object[k].o, fullKey(k))
            ELSE IF EmittedAs(object[k]) = "sections"
            THEN Flatten([i \in 1..Len(object[k].a) |->
                            "\n[[" \o fullKey(k) \o "]]\n"
                            \o TableForm(object[k].a[i].o, fullKey(k))])
            ELSE ""
    IN  Flatten([i \in 1..Len(keys) |-> line(keys[i])])
        \o Flatten([i \in 1..Len(keys) |-> below(keys[i])])

\* C22: a table written as TOML has first, as key = value lines, its entries
\* that are neither a table nor a non-empty array of tables only; then each
\* table under [prefix.key] and each non-empty array of tables only as one
\* [[prefix.key]] section per element, in element order; empty arrays and
\* arrays that mix tables with other values stand on their line as [ ... ],
\* their tables as { k = v, ... }.
C22_TablePromotion == (out.done /\ data = "") => out.text = TableForm(root.o, "")

\* C22: a mixed array and an array of two tables were written.
C22_Reached ==
    /\ out.done /\ data = ""
    /\ root = Entries("a", Array(<<Integer(1), Entry("x", Integer(1))>>),
                      "b", Array(<<Entry("x", Integer(1)), DefaultValue>>))
    /\ out.text = "a = [1, { x = 1 }]\n\n[[b]]\nx = 1\n\n[[b]]\n"

(***************************************************************************)
(* C23.  Keys in TOML output                                                *)
(***************************************************************************)
BareKeyChars ==
    { "a", "b", "c", "d", "e", "f", "g", "h", "i", "j", "k", "l", "m",
      "n", "o", "p", "q", "r", "s", "t", "u", "v", "w", "x", "y", "z",
      "A", "B", "C", "D", "E", "F", "G", "H", "I", "J", "K", "L", "M",
      "N", "O", "P", "Q", "R", "S", "T", "U", "V", "W", "X", "Y", "Z",
      "0", "1", "2", "3", "4", "5", "6", "7", "8", "9", "_", "-" }

\* The bare-key grammar: one or more of A-Z a-z 0-9 _ -, a digit allowed first.
BareKeyGrammar(key) ==
    Len(key) >= 1 /\ \A i \in 1..Len(key) : SubSeq(key, i, i) \in BareKeyChars

\* The key as it is to be written.
KeyForm(key) == IF BareKeyGrammar(key) THEN key ELSE stringifyString(key)

\* The document written has one entry.
OneEntry == out.done /\ data = "" /\ Cardinality(DOMAIN root.o) = 1

TheKey == CHOOSE key \in DOMAIN root.o : TRUE

\* C23: in TOML output a key is written bare exactly when it matches the
\* bare-key grammar, a leading digit allowed, and as a quoted basic string
\* otherwise: on its key = value line, in its [header] and in its [[header]].
C23_BareKeys ==
    OneEntry =>
        StartsWith(out.text,
                   CASE EmittedAs(root.o[TheKey]) = "line" -> KeyForm(TheKey) \o " = "
                     [] EmittedAs(root.o[TheKey]) = "table" -> "\n[" \o KeyForm(TheKey) \o "]\n"
                     [] OTHER -> "\n[[" \o KeyForm(TheKey) \o "]]\n")

\* C23: the key 3 was written in quotes.
C23_Diverges ==
    /\ OneEntry /\ root = Entry("3", Integer(1)) /\ BareKeyGrammar("3")
    /\ out.text = "\"3\" = 1\n"

(***************************************************************************)
(* C24.  Asking a value for a type it does not hold                         *)
(***************************************************************************)
\* The host type asked for is one the variant does not hold.
Misuse(asks, type) ==
    CASE asks = "bool" -> type # "Boolean"
      [] asks = "number" -> type \in {"String", "Date", "Array", "Object"}
      [] asks = "string" -> type # "String"
      [] asks = "date" -> type # "Date"
      [] asks = "array" -> type # "Array"
      [] asks = "table" -> type # "Object"

\* The step is an accessor call.
IsCall == heap'.ops = heap.ops + 1 /\ heap'.ret # NoReturn

\* C24: asking a value for a host type its variant does not hold raises
\* TomlException and leaves the value as it was, through the conversion
\* operators and through get<T>() alike.
C24_TypeMisuse ==
    [][(IsCall /\ Misuse(heap'.ret.asks, heap.objs[heap'.ret.self].m_type))
          => (heap'.ret.thrown /\ heap'.exc # "" /\ heap'.objs = heap.objs)]_vars

\* C24: get<bool>() on the integer 1 returned true and raised nothing.
C24_Diverges ==
    /\ heap.ret # NoReturn /\ heap.ret.call = "get<bool>"
    /\ heap.objs[heap.ret.self] = ValueObject(Integer(1))
    /\ ~heap.ret.thrown /\ heap.exc = "" /\ heap.ret.value = Boolean(TRUE)

(***************************************************************************)
(* C25.  A copy shares no storage with its source                           *)
(***************************************************************************)
RECURSIVE Blocks(_, _, _), BlocksOfAll(_, _, _)
\* The pointers met from an object, each as often as it is met; a pointer
\* met again below the block it points to is listed and not followed.
Blocks(m, obj, above) ==
    IF obj.m_type \notin PointerTypes THEN <<>>
    ELSE IF obj.m_value.ptr = 0 THEN <<0>>
    ELSE IF obj.m_value.ptr \in above THEN <<obj.m_value.ptr>>
    ELSE <<obj.m_value.ptr>>
           \o BlocksOfAll(m, Elements(m[obj.m_value.ptr]), above \cup {obj.m_value.ptr})

BlocksOfAll(m, objs, above) ==
    IF objs = <<>> THEN <<>>
    ELSE Blocks(m, Head(objs), above) \o BlocksOfAll(m, Tail(objs), above)

\* No block is pointed to twice, from one object of the program or from
\* two, and every block pointed to is allocated.
NoSharing ==
    Bind(BlocksOfAll(store.mem, store.objs, {}), LAMBDA ptrs :
      /\ \A i, j \in DOMAIN ptrs : i # j => ptrs[i] # ptrs[j]
      /\ \A i \in DOMAIN ptrs : ptrs[i] # 0 /\ store.mem[ptrs[i]] # Freed)

\* The step copied the object at op.other to the object at op.self.
Copies == store'.fault = "" /\ store'.op.name \in {"copy", "assign"}

\* The value the i-th object of the program stands for.
Stands(st, i) == valueOf(st.mem, st.objs[i])

\* C25: a copy, constructed or assigned, equals its source and shares no
\* storage with it, so that no block is ever reached from two objects; and
\* an operation applied to one object of the program, at whatever depth,
\* leaves the value of every other object as it was: that of the source when
\* applied to the copy, that of the copy when applied to the source.
C25_DeepCopy ==
    /\ [](store.fault = "" => NoSharing)
    /\ [][Copies => valueOf(store'.mem, objectAt(store', store'.op.self))
                      = valueOf(store.mem, objectAt(store, store'.op.other))]_vars
    /\ [][store'.fault = "" =>
            \A i \in 1..Len(store.objs) :
               (store' # store /\ i # store'.op.self.obj) => Stands(store', i) = Stands(store, i)]_vars

\* C25: the table {k = [1, 1]} was copied and the copy's array, one level
\* down, was given a third element; the source still holds two.
C25_Reached ==
    /\ store.fault = "" /\ store.ops = 4 /\ Len(store.objs) = 2
    /\ store.op.name = "push_back" /\ store.op.self = Place(2, <<KeyStep("k")>>)
    /\ Stands(store, 1) = Object(MapPut(NoEntries, "k", Array(<<Integer(1), Integer(1)>>)))
    /\ Stands(store, 2) =
         Object(MapPut(NoEntries, "k", Array(<<Integer(1), Integer(1), Integer(1)>>)))

(***************************************************************************)
(* C26.  A dotted key through an array of tables                            *)
(***************************************************************************)
\* The text so far is k >= 1 [[t.a]] headers with empty bodies, and the
\* section read is [t] with the one line a.b = 1.
DottedThroughArray ==
    /\ data' # data /\ last'.read
    /\ ~last'.isArray /\ last'.headers = <<"t">>
    /\ Len(last'.keyValues) = 1
    /\ last'.keyValues[1].keys = <<"a", "b">> /\ last'.keyValues[1].val = Integer(1)
    /\ sections # <<>>
    /\ \A i \in 1..Len(sections) : sections[i] = Section(TRUE, <<"t", "a">>, <<>>)

\* The line was accepted, and t.a is as before but for b = 1 in its last
\* element.
BoundInLatest(was, now) ==
    /\ status' = "ok"
    /\ isArray(now) /\ Len(now.a) = Len(was.a)
    /\ \A i \in 1..(Len(was.a) - 1) : now.a[i] = was.a[i]
    /\ Back(now.a) = Object(MapPut(Back(was.a).o, "b", Integer(1)))

\* C26: after [[t.a]], the line a.b = 1 in the body of [t] is accepted and
\* binds b in the most recent element of t.a.
C26_DottedDescends ==
    [][DottedThroughArray
          => BoundInLatest(ValueAt(root, <<"t", "a">>), ValueAt(root', <<"t", "a">>))]_vars

\* C26: the line a.b = 1 in the body of [t], after one [[t.a]], is refused.
C26_Diverges ==
    /\ data = "[[t.a]]\n[t]\na.b = 1\n"
    /\ status = "error" /\ exc = "TomlParseException"
    /\ errMsg = "Cannot insert key on non-object" /\ errPos = 20

(***************************************************************************)
(* C27.  The position and the name a duplicate key is refused with          *)
(***************************************************************************)
RECURSIVE NextLine(_, _)
\* The position after the first line feed at or after position.
NextLine(text, position) ==
    IF position >= Len(text) THEN Len(text)
    ELSE IF Ch(text, position) = "\n" THEN position + 1
    ELSE NextLine(text, position + 1)

RECURSIVE LineStart(_, _)
\* The position the j-th line of the text starts at.
LineStart(text, j) == IF j = 1 THEN 0 ELSE NextLine(text, LineStart(text, j - 1))

NumLines(text) == Cardinality({i \in 1..Len(text) : SubSeq(text, i, i) = "\n"})

RECURSIVE DottedPath(_)
DottedPath(keys) ==
    IF Len(keys) = 1 THEN keys[1] ELSE keys[1] \o "." \o DottedPath(Tail(keys))

Contains(text, part) ==
    \E i \in 0..(Len(text) - Len(part)) : SubSeq(text, i + 1, i + Len(part)) = part

\* The key/values that bind a path an earlier one of the body has bound.
SecondBindings(keyValues) ==
    {j \in 1..Len(keyValues) : \E i \in 1..(j - 1) : keyValues[i].keys = keyValues[j].keys}

\* The lines of the text before its key/value lines: that of the header.
HeaderLines == IF last.headers = <<>> THEN 0 ELSE 1

\* The text is one body, the root's or that of one header, with its
\* key/values one to a line, and one of them binds a path again.
BodyRebinds ==
    /\ last.read /\ data # ""
    /\ NumLines(data) = HeaderLines + Len(last.keyValues)
    /\ SecondBindings(last.keyValues) # {}

\* C27: the ParseError for a key path bound twice carries a position within
\* the line that binds it the second time, its line feed included, also when
\* more key/value lines follow, and its message names that path.
C27_ErrorPosition ==
    BodyRebinds =>
       Bind(MinOf(SecondBindings(last.keyValues)), LAMBDA j :
         /\ status = "error" /\ exc = "TomlParseException"
         /\ LineStart(data, HeaderLines + j) <= errPos
         /\ errPos <= LineStart(data, HeaderLines + j + 1)
         /\ Contains(errMsg, DottedPath(last.keyValues[j].keys)))

\* C27: under [a], b.c is bound again on the second of three lines, at
\* positions 12 to 19; the error carries position 26, the end of the body,
\* and names c.
C27_Diverges ==
    /\ data = "[a]\nb.c = 1\nb.c = 2\nx = 3\n"
    /\ BodyRebinds /\ MinOf(SecondBindings(last.keyValues)) = 2
    /\ status = "error" /\ exc = "TomlParseException"
    /\ errPos = 26 /\ errMsg = "Duplicate key 'c'"

(***************************************************************************)
(* C28.  The canonical text of a date                                       *)
(***************************************************************************)
\* What the words of the claim make of a text s of the grammar: its date,
\* its time and its fraction, read off the characters of s.
HasDatePart(s) == Len(s) >= 10 /\ substr(s, 4, 1) = "-"

HasTimePart(s) == ~HasDatePart(s) \/ Len(s) > 10

TimeStart(s) == IF HasDatePart(s) THEN 11 ELSE 0

\* The digits after the '.', none when s has no fraction.
FractionOf(s) ==
    IF HasTimePart(s) /\ substr(s, TimeStart(s) + 8, 1) = "."
    THEN substr(s, TimeStart(s) + 9, skipDigits(s, TimeStart(s) + 9) - (TimeStart(s) + 9))
    ELSE ""

\* The position the offset starts at: after the time and its fraction.
LocalEnd(s) ==
    IF ~HasTimePart(s) THEN 10
    ELSE TimeStart(s) + 8 + (IF FractionOf(s) = "" THEN 0 ELSE 1 + Len(FractionOf(s)))

RECURSIVE TrimZeros(_)
TrimZeros(digits) ==
    IF digits = "" THEN ""
    ELSE IF Ch(digits, Len(digits) - 1) = "0" THEN TrimZeros(SubSeq(digits, 1, Len(digits) - 1))
    ELSE digits

FirstNine(digits) == IF Len(digits) > 9 THEN SubSeq(digits, 1, 9) ELSE digits

\* Date, 'T', time, and the fraction cut to nine digits and trimmed, left
\* out when nothing remains of it.
CanonicalLocal(s) ==
    (IF HasDatePart(s) THEN substr(s, 0, 10) ELSE "")
    \o (IF HasDatePart(s) /\ HasTimePart(s) THEN "T" ELSE "")
    \o (IF HasTimePart(s) THEN substr(s, TimeStart(s), 8) ELSE "")
    \o (IF TrimZeros(FirstNine(FractionOf(s))) = "" THEN ""
        ELSE "." \o TrimZeros(FirstNine(FractionOf(s))))

VariantOf(s) ==
    IF ~HasDatePart(s) THEN "LOCAL_TIME"
    ELSE IF ~HasTimePart(s) THEN "LOCAL_DATE"
    ELSE IF LocalEnd(s) < Len(s) THEN "OFFSET_DATE_TIME"
    ELSE "LOCAL_DATE_TIME"

\* The two texts are one text up to the ninth digit of the fraction and
\* after the fraction.
AlikeToNinth(s, t) ==
    /\ Len(FractionOf(s)) >= 9 /\ Len(FractionOf(t)) >= 9
    /\ substr(s, 0, LocalEnd(s) - Len(FractionOf(s)) + 9)
         = substr(t, 0, LocalEnd(t) - Len(FractionOf(t)) + 9)
    /\ substr(s, LocalEnd(s), Len(s) - LocalEnd(s)) = substr(t, LocalEnd(t), Len(t) - LocalEnd(t))

\* C28: the text toString gives for an accepted date/time text s is, up to
\* the offset, s with T for its separator and with its fraction cut to nine
\* digits, trimmed of closing zeros and left out when zero; it has the
\* variant of s; constructing a date from it gives the date again; and a text
\* that differs from s beyond the ninth digit of the fraction only gives the
\* same date.
C28_CanonicalDate ==
    (Parsed /\ made.res.st = "ok" /\ shown.done) =>
        /\ substr(shown.text, 0, LocalEnd(shown.text)) = CanonicalLocal(made.text)
        /\ made.res.date.m_type = VariantOf(made.text)
        /\ VariantOf(shown.text) = VariantOf(made.text)
        /\ TomlDate(shown.text).st = "ok"
        /\ TomlDate(shown.text).date = made.res.date
        /\ \A t \in DateTexts :
              AlikeToNinth(made.text, t) =>
                 TomlDate(t).st = "ok" /\ TomlDate(t).date = made.res.date

\* C28: a date-time with a space, ten digits of fraction and Z was made and
\* shown with T and nine digits; the text with another tenth digit is in the
\* set.
C28_Reached ==
    /\ made.done /\ made.text = "2000-01-01 00:00:00.1234567891Z" /\ made.res.st = "ok"
    /\ shown.done /\ shown.text = "2000-01-01T00:00:00.123456789Z"
    /\ \E t \in DateTexts : t # made.text /\ AlikeToNinth(made.text, t)

(***************************************************************************)
(* C29.  What an inline table may hold between its braces                   *)
(***************************************************************************)
\* The tokens without the spaces.
Spaceless(tokens) == SelectSeq(tokens, LAMBDA token : token # " ")

\* Key/values with commas between them: nothing, or a key/value, then a
\* comma and a key/value any number of times.  No line feed token and no
\* comma before the closing brace is among them.
Listed(tokens) ==
    \/ tokens = <<>>
    \/ /\ Len(tokens) % 2 = 1
       /\ \A i \in 1..Len(tokens) : IF i % 2 = 1 THEN tokens[i] \in Pairs ELSE tokens[i] = ","

\* No key is bound twice between the braces; what becomes of a key bound
\* twice is no matter of the syntax.
KeysOnce(tokens) ==
    \A i, j \in 1..Len(tokens) : (i # j /\ tokens[i] \in Pairs) => tokens[i] # tokens[j]

\* A line feed stands between the braces outside the string values.
BreakOutsideStrings(tokens) ==
    \E i \in 1..Len(tokens) : tokens[i] \in {"\n", ArrayPair}

\* A line feed stands between the braces outside the values.
BreakOutsideValues(tokens) == \E i \in 1..Len(tokens) : tokens[i] = "\n"

\* C29, as stated: an inline table of distinct keys is accepted if and only
\* if its key/values are listed with commas between them, without a comma
\* before the closing brace, and no line feed stands between the braces
\* outside string values.
C29_InlineSyntax ==
    \A form \in InlineForms :
        (data = form.text /\ KeysOnce(form.tokens)) =>
           (status = "ok" <=> (Listed(Spaceless(form.tokens))
                                 /\ ~BreakOutsideStrings(form.tokens)))

\* C29, amended: an inline table of distinct keys is accepted if and only
\* if its key/values are listed with commas between them, without a comma
\* before the closing brace, and no line feed stands between the braces
\* outside the values; a line feed inside a multi-line string or inside an
\* array value is accepted; what is refused is a ParseError, what is
\* accepted binds each key of the table.
C29_InlineSyntaxAmended ==
    \A form \in InlineForms :
        (data = form.text /\ KeysOnce(form.tokens)) =>
           /\ status = "ok" <=> (Listed(Spaceless(form.tokens))
                                   /\ ~BreakOutsideValues(form.tokens))
           /\ status # "ok" => (status = "error" /\ exc = "TomlParseException")
           /\ status = "ok" =>
                 /\ isObject(root.o["t"])
                 /\ Cardinality(DOMAIN root.o["t"].o)
                      = Cardinality({i \in 1..Len(form.tokens) : form.tokens[i] \in Pairs})

\* C29: the table whose one value is an array with a line feed in it was
\* accepted.
C29_Reached ==
    /\ data = InlineText(<<ArrayPair, ",", " ", "k = 1">>)
    /\ status = "ok"
    /\ root.o["t"].o["a"] = Array(<<Integer(1), Integer(2)>>)
    /\ root.o["t"].o["k"] = Integer(1)

(***************************************************************************)
(* C30.  The closing bracket of a table header                              *)
(***************************************************************************)
\* The path is followed, after its spaces or tabs, by the bracket or
\* brackets that close what opened it, and by nothing more on the line.
Closed(form) ==
    \/ form.opener = "[" /\ form.closer = "]"
    \/ form.opener = "[[" /\ form.closer = "]]"

\* C30: a header line is accepted only if its path is followed, after
\* optional spaces or tabs, by "]" when "[" opened it and by "]]" when "[["
\* did; with another character or the line end in that place the text is
\* refused with a ParseError and no table is defined.
C30_HeaderClosed ==
    \A form \in HeaderForms :
        data = form.text =>
           /\ status = "ok" => Closed(form)
           /\ ~Closed(form) =>
                 (status = "error" /\ exc = "TomlParseException" /\ root = NoDocument)

\* C30: the line "[a b" was accepted and defined the table a.
C30_Diverges ==
    /\ data = "[a b\n"
    /\ status = "ok" /\ root = Object(MapPut(NoEntries, "a", DefaultValue))

====
